---- MODULE Spec2Model ----
(***************************************************************************)
(* School-registration workflow of EK-SMS (apps/api, module                *)
(* school_applications): the application status state machine, the         *)
(* verification-token lifecycle and the two scheduled jobs.                *)
(*                                                                         *)
(* Every request handler and every job run is a process.  A process takes  *)
(* one step per database commit of the handler (the handlers are           *)
(* coroutines and give up control at every await); the steps of different  *)
(* processes interleave freely.  Time is the shared clock `now`, in hours. *)
(***************************************************************************)
EXTENDS Integers, Sequences, FiniteSets, TLC

(***************************************************************************)
(* Bounds of the model.                                                    *)
(***************************************************************************)
MaxApps == 2
MaxProcs == 2
MaxTicks == 3
MaxTokens == 5
\* The raw tokens the workloads other than that of the resends draw.
MaxDrawn == 3
MaxMail == 2

(***************************************************************************)
(* Program constants.                                                      *)
(***************************************************************************)
TOKEN_EXPIRY_HOURS == 72
REMINDER_THRESHOLD_HOURS == 48
EXPIRY_THRESHOLD_HOURS == 72
HOURS_REMAINING_AT_REMINDER == EXPIRY_THRESHOLD_HOURS - REMINDER_THRESHOLD_HOURS

\* The clock advances in steps of ClockStep hours: a reading falls between
\* the reminder threshold and the expiry threshold of what the reading
\* before the last created (48 < 50 < 72), and the next one falls behind the
\* expiry threshold (72 < 75).
ClockStep == HOURS_REMAINING_AT_REMINDER + 1
MaxTime == MaxTicks * ClockStep

NULL == -1

(***************************************************************************)
(* ApplicationStatus, TokenType, AdminChoice.                              *)
(***************************************************************************)
AWAITING_APPLICANT_VERIFICATION == "AWAITING_APPLICANT_VERIFICATION"
AWAITING_PRINCIPAL_CONFIRMATION == "AWAITING_PRINCIPAL_CONFIRMATION"
PENDING_REVIEW == "PENDING_REVIEW"
UNDER_REVIEW == "UNDER_REVIEW"
MORE_INFO_REQUESTED == "MORE_INFO_REQUESTED"
APPROVED == "APPROVED"
REJECTED == "REJECTED"
EXPIRED == "EXPIRED"

ApplicationStatus ==
    { AWAITING_APPLICANT_VERIFICATION, AWAITING_PRINCIPAL_CONFIRMATION,
      PENDING_REVIEW, UNDER_REVIEW, MORE_INFO_REQUESTED,
      APPROVED, REJECTED, EXPIRED }

APPLICANT_VERIFICATION == "APPLICANT_VERIFICATION"
PRINCIPAL_CONFIRMATION == "PRINCIPAL_CONFIRMATION"
TokenType == { APPLICANT_VERIFICATION, PRINCIPAL_CONFIRMATION }

AdminChoice == { "APPLICANT", "PRINCIPAL" }

\* The statuses the partial unique index and the duplicate checks leave out.
TerminalStatuses == { APPROVED, REJECTED, EXPIRED }
pending_statuses == ApplicationStatus \ TerminalStatuses

VALID_STATUS_TRANSITIONS ==
    [ s \in ApplicationStatus |->
        CASE s = AWAITING_APPLICANT_VERIFICATION ->
                { AWAITING_PRINCIPAL_CONFIRMATION, PENDING_REVIEW, EXPIRED }
          [] s = AWAITING_PRINCIPAL_CONFIRMATION -> { PENDING_REVIEW, EXPIRED }
          [] s = PENDING_REVIEW -> { UNDER_REVIEW, APPROVED, REJECTED }
          [] s = UNDER_REVIEW -> { MORE_INFO_REQUESTED, APPROVED, REJECTED }
          [] s = MORE_INFO_REQUESTED -> { UNDER_REVIEW, EXPIRED, REJECTED }
          [] OTHER -> {} ]

(***************************************************************************)
(* Strings of the requests.  LOWER is SQL's LOWER() / Python's str.lower() *)
(* on the strings of the model.                                            *)
(***************************************************************************)
\* (school_name, city) of the submissions: two that differ in case only, and
\* one in another city.
Places == { << "Oak", "Rome" >>, << "OAK", "Rome" >>, << "Oak", "Oslo" >> }
PrincipalEmail == "p@x.org"
ApplicantEmail == "a@x.org"
PrincipalName == "John Principal"
ApplicantName == "Jane Applicant"

LOWER(s) ==
    CASE s = "Oak" -> "oak"
      [] s = "OAK" -> "oak"
      [] s = "Rome" -> "rome"
      [] s = "Oslo" -> "oslo"
      [] s = "P@X.org" -> "p@x.org"
      [] s = "A@X.org" -> "a@x.org"
      [] OTHER -> s

VARIABLES
    now,        \* the clock, in hours
    apps,       \* table school_applications: a sequence, the id is the index
    tokens,     \* table verification_tokens: a set of rows
    schools,    \* table schools: the application ids of the committed rows
    users,      \* table users: the committed rows, as (email, school_id)
    redis,      \* the counters resend_verification:{application_id}
    nextRaw,    \* how many raw tokens secrets.token_urlsafe has handed out
    procs,      \* the requests and job runs in flight
    mail,       \* how often the e-mail sender was called, per application and kind
    links,      \* the token strings handed to the e-mail sender: for which
                \* application and token row, by which handler, and when
    consumed,   \* history: the calls of verify_applicant and confirm_principal
                \* that have returned a response, as << handler, token string >>
    scheduler   \* core/scheduler.py: how far the startup has come, the global
                \* _scheduler (None or running) with the jobs added to it, and
                \* _job_registry

vars ==
    << now, apps, tokens, schools, users, redis, nextRaw, procs, mail, links, consumed,
       scheduler >>

Procs == 1 .. MaxProcs
AppIds == 1 .. MaxApps

MailKinds ==
    { "applicant_verification", "principal_confirmation", "under_review",
      "verification_reminder", "application_expired", "more_info_requested",
      "application_rejected", "application_approved" }

\* One more call of the sender `kind` for application a (the count saturates).
Sent(m, a, kind) == [m EXCEPT ![a][kind] = IF @ < MaxMail THEN @ + 1 ELSE @]

(***************************************************************************)
(* helpers.py                                                              *)
(***************************************************************************)
\* get_effective_applicant_email_from_model, had it answered with the
\* principal's address whoever the applicant is.
get_principal_email_from_model(application) == application.principal_email

get_effective_applicant_email_from_model(application) ==
    IF application.applicant_is_principal THEN application.principal_email
    ELSE IF application.applicant_email # "" THEN application.applicant_email
    ELSE application.principal_email

get_effective_applicant_email_from_schema(data) ==
    IF data.applicant_is_principal THEN data.principal_email
    ELSE data.applicant_email

(***************************************************************************)
(* service.py: tokens                                                      *)
(***************************************************************************)
\* SHA-256 of a token string: one-way and injective on the model's strings.
\* Raw tokens are 1 .. MaxTokens; a digest is never a raw token, and the
\* digest of a digest is never a stored digest.
hash_token(token) == token + (MaxTokens + 2)

calculate_token_expiry(t) == t + TOKEN_EXPIRY_HOURS

(***************************************************************************)
(* repository.py                                                           *)
(***************************************************************************)
\* INSERT of repository.create: the status column's default, submitted_at's
\* server default now().
create(data, t) ==
    [ school_name |-> data.school_name,
      city |-> data.city,
      principal_email |-> data.principal_email,
      principal_name |-> data.principal_name,
      applicant_is_principal |-> data.applicant_is_principal,
      applicant_email |-> data.applicant_email,
      applicant_name |-> data.applicant_name,
      admin_choice |-> data.admin_choice,
      status |-> AWAITING_APPLICANT_VERIFICATION,
      submitted_at |-> t,
      applicant_verified_at |-> NULL,
      principal_confirmed_at |-> NULL,
      reviewed_at |-> NULL,
      reviewed_by |-> NULL,
      decision_reason |-> NULL,
      reminder_sent_at |-> NULL,
      internal_notes |-> << >> ]

\* The rows get_by_applicant_email selects.
get_by_applicant_email(table, email) ==
    { i \in DOMAIN table :
        \/ table[i].applicant_email = email
        \/ table[i].applicant_is_principal /\ table[i].principal_email = email }

\* The rows get_pending_by_school_and_city selects (scalar_one_or_none: the
\* unique index leaves at most one).
get_pending_by_school_and_city(table, name, city) ==
    { i \in DOMAIN table :
        /\ table[i].school_name = name
        /\ table[i].city = city
        /\ table[i].status \in pending_statuses }

\* The partial unique index ix_school_applications_unique_pending: would row
\* `id`, with these values, collide with another non-terminal row?
unique_pending_violated(table, id, name, city, status) ==
    /\ status \notin TerminalStatuses
    /\ \E j \in DOMAIN table :
          /\ j # id
          /\ table[j].status \notin TerminalStatuses
          /\ LOWER(table[j].school_name) = LOWER(name)
          /\ LOWER(table[j].city) = LOWER(city)

\* update_status without its validation: the variant the transition
\* properties are tested against.
update_status_unvalidated(current_status, status) == TRUE

\* The validation of update_status: TRUE when the transition is let through.
update_status_allowed(current_status, status) ==
    ~ (status # current_status /\ status \notin VALID_STATUS_TRANSITIONS[current_status])

\* The UPDATE update_status commits.  The unit of work writes the columns
\* whose value differs from the one the session's instance was loaded with:
\* the status when it is not current_status, and the keyword arguments.
update_status_write(table, id, current_status, status, kwargs) ==
    [ table EXCEPT ![id] =
        [ f \in DOMAIN @ |->
            IF f = "status" /\ status # current_status THEN status
            ELSE IF f \in DOMAIN kwargs THEN kwargs[f]
            ELSE @[f] ] ]

create_token(application_id, token, token_type, expires_at, t) ==
    [ token |-> token,
      application_id |-> application_id,
      token_type |-> token_type,
      expires_at |-> expires_at,
      used_at |-> NULL,
      created_at |-> t ]

\* get_by_token: the rows with this digest (the column is unique).
get_by_token(rows, token) == { r \in rows : r.token = token }

mark_token_used(rows, token, t) ==
    { IF r.token = token THEN [r EXCEPT !.used_at = t] ELSE r : r \in rows }

delete_tokens_for_application(rows, application_id, token_type) ==
    { r \in rows :
        ~ (r.application_id = application_id /\ r.token_type = token_type) }


\* get_valid_token_for_application: the unused, unexpired rows of one type.
get_valid_token_for_application(rows, application_id, token_type, t) ==
    { r \in rows :
        /\ r.application_id = application_id
        /\ r.token_type = token_type
        /\ r.used_at = NULL
        /\ r.expires_at > t }

get_applications_needing_reminder(table, submitted_before, status) ==
    { i \in DOMAIN table :
        /\ table[i].status = status
        /\ table[i].submitted_at < submitted_before
        /\ table[i].reminder_sent_at = NULL }

\* The first query of the expiry job without its status filter: the variant
\* the idempotency of the job is tested against.
get_expired_unverified_any_status(table, before_datetime) ==
    { i \in DOMAIN table : table[i].submitted_at < before_datetime }

get_expired_unverified(table, before_datetime) ==
    { i \in DOMAIN table :
        /\ table[i].status = AWAITING_APPLICANT_VERIFICATION
        /\ table[i].submitted_at < before_datetime }

\* The join of get_principal_tokens_needing_reminder: one row per token.
get_principal_tokens_needing_reminder(table, rows, created_before, t) ==
    { r \in rows :
        /\ r.application_id \in DOMAIN table
        /\ table[r.application_id].status = AWAITING_PRINCIPAL_CONFIRMATION
        /\ table[r.application_id].reminder_sent_at = NULL
        /\ r.token_type = PRINCIPAL_CONFIRMATION
        /\ r.created_at < created_before
        /\ r.used_at = NULL
        /\ r.expires_at > t }

\* The second query of the expiry job deciding by the application's
\* submitted_at: the variant the principal path of the job is tested against.
get_principal_tokens_to_expire_by_submission(table, rows, created_before) ==
    { r \in rows :
        /\ r.application_id \in DOMAIN table
        /\ table[r.application_id].status = AWAITING_PRINCIPAL_CONFIRMATION
        /\ r.token_type = PRINCIPAL_CONFIRMATION
        /\ table[r.application_id].submitted_at < created_before
        /\ r.used_at = NULL }

\* The join of get_principal_tokens_to_expire: one row per token.
get_principal_tokens_to_expire(table, rows, created_before) ==
    { r \in rows :
        /\ r.application_id \in DOMAIN table
        /\ table[r.application_id].status = AWAITING_PRINCIPAL_CONFIRMATION
        /\ r.token_type = PRINCIPAL_CONFIRMATION
        /\ r.created_at < created_before
        /\ r.used_at = NULL }

\* mark_reminder_sent that records nothing: the variant the idempotency of
\* the reminder job is tested against.
mark_reminder_sent_dropped(table, application_id, sent_at) == table

mark_reminder_sent(table, application_id, sent_at) ==
    [ table EXCEPT ![application_id].reminder_sent_at = sent_at ]

(***************************************************************************)
(* A result set as the list a job iterates over: in ascending order of the *)
(* key (the application id, or the token digest for the joins).            *)
(***************************************************************************)
RECURSIVE ResultList(_)
ResultList(S) ==
    IF S = {} THEN << >>
    ELSE LET m == CHOOSE x \in S : \A y \in S : x <= y
         IN << m >> \o ResultList(S \ {m})

ApplicationOf(rows, token) == (CHOOSE r \in rows : r.token = token).application_id

(***************************************************************************)
(* service.py: _validate_token, had it no expiry check.                    *)
(***************************************************************************)
validate_token_never_expired(rows, token_string, expected_type, t) ==
    LET found == get_by_token(rows, hash_token(token_string)) IN
    IF found = {} THEN "InvalidTokenError"
    ELSE LET verification_token == CHOOSE r \in found : TRUE IN
         IF verification_token.token_type # expected_type
             THEN "InvalidTokenError: Invalid token type for this operation."
         ELSE IF verification_token.used_at # NULL THEN "TokenAlreadyUsedError"
         ELSE "ok"

(***************************************************************************)
(* service.py: _validate_token, had it checked the expiry before the use.  *)
(***************************************************************************)
validate_token_expiry_first(rows, token_string, expected_type, t) ==
    LET found == get_by_token(rows, hash_token(token_string)) IN
    IF found = {} THEN "InvalidTokenError"
    ELSE LET verification_token == CHOOSE r \in found : TRUE IN
         IF verification_token.token_type # expected_type
             THEN "InvalidTokenError: Invalid token type for this operation."
         ELSE IF t > verification_token.expires_at THEN "TokenExpiredError"
         ELSE IF verification_token.used_at # NULL THEN "TokenAlreadyUsedError"
         ELSE "ok"

(***************************************************************************)
(* service.py: _validate_token.  The outcome for token string s.           *)
(***************************************************************************)
validate_token(rows, token_string, expected_type, t) ==
    LET found == get_by_token(rows, hash_token(token_string)) IN
    IF found = {} THEN "InvalidTokenError"
    ELSE LET verification_token == CHOOSE r \in found : TRUE IN
         IF verification_token.token_type # expected_type
             THEN "InvalidTokenError: Invalid token type for this operation."
         ELSE IF verification_token.used_at # NULL THEN "TokenAlreadyUsedError"
         ELSE IF t > verification_token.expires_at THEN "TokenExpiredError"
         ELSE "ok"

(***************************************************************************)
(* Processes.                                                              *)
(***************************************************************************)
NoData ==
    [ school_name |-> "", city |-> "", principal_email |-> "", principal_name |-> "",
      applicant_is_principal |-> FALSE, applicant_email |-> "", applicant_name |-> "",
      admin_choice |-> "" ]

\* The submissions of the model: the schema's validator demands the
\* applicant's e-mail and admin_choice when the applicant is not the principal.
SubmitData ==
    { [ school_name |-> pl[1], city |-> pl[2], principal_email |-> PrincipalEmail,
        principal_name |-> PrincipalName,
        applicant_is_principal |-> TRUE, applicant_email |-> "", applicant_name |-> "",
        admin_choice |-> "" ] : pl \in Places }
    \cup
    { [ school_name |-> pl[1], city |-> pl[2], principal_email |-> PrincipalEmail,
        principal_name |-> PrincipalName,
        applicant_is_principal |-> FALSE, applicant_email |-> ApplicantEmail,
        applicant_name |-> ApplicantName,
        admin_choice |-> "APPLICANT" ] : pl \in Places }

\* Submissions that name the school's admin otherwise: an applicant who
\* leaves the account to the principal, and a principal whose form carries
\* admin_choice (the validator looks at it only when the applicant is not
\* the principal).
ChoiceData ==
    { [ school_name |-> "Oak", city |-> "Rome", principal_email |-> PrincipalEmail,
        principal_name |-> PrincipalName,
        applicant_is_principal |-> FALSE, applicant_email |-> ApplicantEmail,
        applicant_name |-> ApplicantName, admin_choice |-> "PRINCIPAL" ],
      [ school_name |-> "Oak", city |-> "Rome", principal_email |-> PrincipalEmail,
        principal_name |-> PrincipalName,
        applicant_is_principal |-> TRUE, applicant_email |-> "", applicant_name |-> "",
        admin_choice |-> "APPLICANT" ] }

\* op: the handler or job; pc: where it stands; app, tok, data, admin, email:
\* its arguments (for an approval, email is the designated admin's; for a
\* resend that has returned, tok is the token string it has mailed); seen: the status of the application instance its session holds;
\* target: the status it is about to write; at: executed_at of a job run;
\* list: the rows a job still has to process; phase: which of a job's two
\* loops it is in; results: what a job has recorded; res: the outcome;
\* note: the text of an internal note to add; notes: internal_notes of the
\* application instance the session holds; email_sent: what the sender of
\* the verification e-mail answered a submission; steps: the progress steps
\* of a status response; name: the designated admin's name of an approval;
\* sent: to_email and admin_name of the welcome e-mail of an approval.
Idle ==
    [ op |-> "idle", pc |-> "idle", app |-> 0, tok |-> 0, data |-> NoData,
      admin |-> 0, email |-> "", seen |-> "", target |-> "", at |-> 0,
      list |-> << >>,
      phase |-> "", results |-> << >>, res |-> "", note |-> "", notes |-> << >>,
      email_sent |-> "", steps |-> << >>, name |-> "", sent |-> << >> ]

\* The process has returned or raised: its outcome stays until it is collected.
Done(proc, res) ==
    [Idle EXCEPT !.op = proc.op, !.pc = "done", !.app = proc.app, !.tok = proc.tok,
                 !.seen = proc.seen, !.target = proc.target, !.at = proc.at,
                 !.results = proc.results, !.res = res, !.note = proc.note,
                 !.email_sent = proc.email_sent, !.steps = proc.steps,
                 !.sent = proc.sent]

Init ==
    /\ now = 0
    /\ apps = << >>
    /\ tokens = {}
    /\ schools = {}
    /\ users = {}
    /\ redis = [a \in AppIds |-> 0]
    /\ nextRaw = 0
    /\ procs = [p \in Procs |-> Idle]
    /\ mail = [a \in AppIds |-> [k \in MailKinds |-> 0]]
    /\ links = {}
    /\ consumed = {}
    /\ scheduler = [ lifespan |-> "startup", instance |-> "None", jobs |-> {},
                     registry |-> {} ]

\* Time passes.  A step of the clock is longer than the window of the resend
\* counters (RESEND_RATE_LIMIT_WINDOW_SECONDS, one hour): every key expires.
Tick ==
    /\ now < MaxTime
    /\ now' = now + ClockStep
    /\ redis' = [a \in AppIds |-> 0]
    /\ UNCHANGED << apps, tokens, schools, users, nextRaw, procs, mail, links, consumed, scheduler >>

\* The caller has its response; the slot is free again.
Finish(p) ==
    /\ procs[p].pc = "done"
    /\ procs' = [procs EXCEPT ![p] = Idle]
    /\ UNCHANGED << now, apps, tokens, schools, users, redis, nextRaw, mail, links, consumed, scheduler >>

(***************************************************************************)
(* core/email.py                                                           *)
(***************************************************************************)
\* core/email.py: what a sender answers.  Every sender ends in send_email,
\* which returns True (also when no API key is set: the e-mail is logged),
\* or catches the provider's exception and returns False; the arguments the
\* callers pass are strings, so nothing raises before send_email is reached.
send_email == { "True", "False" }

(***************************************************************************)
(* service.py: submit_application                                          *)
(***************************************************************************)
\* _check_duplicate_by_applicant_email
check_duplicate_by_applicant_email(table, applicant_email, school_name) ==
    \E i \in get_by_applicant_email(table, applicant_email) :
        table[i].school_name = school_name /\ table[i].status \in pending_statuses

\* _check_duplicate_by_school_and_city
check_duplicate_by_school_and_city(table, school_name, city) ==
    get_pending_by_school_and_city(table, school_name, city) # {}

\* The handlers that draw a raw token, and whether one more of them can run
\* within the bound on raw tokens.
Issuers == { "submit_application", "verify_applicant", "resend_verification" }

CanIssue ==
    nextRaw + Cardinality({ q \in Procs : procs[q].op \in Issuers /\ procs[q].pc # "done" })
        < MaxTokens

\* Fewer than k raw tokens are drawn or about to be.
TokensBelow(k) ==
    nextRaw + Cardinality({ q \in Procs : procs[q].op \in Issuers /\ procs[q].pc # "done" })
        < k

\* Fewer than n applications are stored or about to be.
ApplicationsBelow(n) ==
    Len(apps) + Cardinality({ q \in Procs : procs[q].pc = "create" }) < n

\* The request arrives; the two duplicate checks.
SubmitApplication(p, data) ==
    /\ procs[p].op = "idle"
    /\ CanIssue
    /\ ApplicationsBelow(MaxApps)
    /\ LET me == [Idle EXCEPT !.op = "submit_application", !.data = data]
           dup == \/ check_duplicate_by_applicant_email(apps,
                        get_effective_applicant_email_from_schema(data), data.school_name)
                  \/ check_duplicate_by_school_and_city(apps, data.school_name, data.city)
       IN procs' = [procs EXCEPT ![p] =
                       IF dup THEN Done(me, "DuplicateApplicationError")
                       ELSE [me EXCEPT !.pc = "create"]]
    /\ UNCHANGED << now, apps, tokens, schools, users, redis, nextRaw, mail, links, consumed, scheduler >>

\* repository.create: the INSERT, under the partial unique index.
SubmitCreate(p) ==
    /\ procs[p].pc = "create"
    /\ LET data == procs[p].data
           id == Len(apps) + 1
       IN IF unique_pending_violated(apps, id, data.school_name, data.city,
                                     AWAITING_APPLICANT_VERIFICATION)
          THEN /\ procs' = [procs EXCEPT ![p] = Done(@, "IntegrityError")]
               /\ apps' = apps
          ELSE /\ apps' = Append(apps, create(data, now))
               /\ procs' = [procs EXCEPT ![p] =
                               [@ EXCEPT !.pc = "token", !.app = id]]
    /\ UNCHANGED << now, tokens, schools, users, redis, nextRaw, mail, links, consumed, scheduler >>

\* submit_application, had a verification e-mail that was not sent been an
\* error of the request.
submit_result_email_fatal(email_sent) ==
    IF email_sent = "True" THEN "ok" ELSE "EmailDeliveryError"

\* How submit_application ends once the sender is back: a false return is
\* logged, an exception is caught and logged, and the response follows.
submit_result(email_sent) == "ok"

\* The verification token and the verification e-mail.
SubmitTokenWith(p, email_sent) ==
    /\ procs[p].pc = "token"
    /\ nextRaw < MaxTokens
    /\ LET raw == nextRaw + 1
           id == procs[p].app
       IN /\ nextRaw' = raw
          /\ tokens' = tokens \cup
                { create_token(id, hash_token(raw), APPLICANT_VERIFICATION,
                               calculate_token_expiry(now), now) }
          /\ mail' = Sent(mail, id, "applicant_verification")
          /\ links' = links \cup
                { [app |-> id, type |-> APPLICANT_VERIFICATION, token |-> raw,
                    row |-> hash_token(raw), at |-> now, by |-> "submit_application"] }
    /\ procs' = [procs EXCEPT ![p] =
          Done([@ EXCEPT !.email_sent = email_sent], submit_result(email_sent))]
    /\ UNCHANGED << now, apps, schools, users, redis, consumed, scheduler >>

SubmitToken(p) == \E email_sent \in send_email : SubmitTokenWith(p, email_sent)

(***************************************************************************)
(* repository.update_status as the handlers and jobs run it.  The sessions *)
(* of the handlers keep the application instance they loaded (db.get       *)
(* answers from the identity map); update_status validates against the     *)
(* status a process holds in `seen` and commits in a later step.           *)
(***************************************************************************)
Admin == 1
Reason == 1

\* The keyword arguments of verify_applicant without the automatic
\* confirmation of the principal: the variant the direct path is tested
\* against.
update_kwargs_without_auto_confirm(proc, table) ==
    CASE proc.op = "verify_applicant" -> [ applicant_verified_at |-> proc.at ]
      [] proc.op = "confirm_principal" -> [ principal_confirmed_at |-> proc.at ]
      [] proc.op = "admin_start_review" ->
            [ reviewed_by |-> proc.admin, reviewed_at |-> proc.at ]
      [] proc.op \in { "admin_request_more_info", "admin_reject_application" } ->
            [ reviewed_at |-> proc.at, decision_reason |-> Reason,
              reviewed_by |-> proc.admin ]
      [] proc.op = "admin_approve_application" ->
            [ reviewed_at |-> proc.at, reviewed_by |-> proc.admin ]
      [] OTHER -> << >>

\* The keyword arguments the callers of update_status pass.
update_kwargs(proc, table) ==
    CASE proc.op = "verify_applicant" ->
            IF table[proc.app].applicant_is_principal
            THEN [ applicant_verified_at |-> proc.at, principal_confirmed_at |-> proc.at ]
            ELSE [ applicant_verified_at |-> proc.at ]
      [] proc.op = "confirm_principal" -> [ principal_confirmed_at |-> proc.at ]
      [] proc.op = "admin_start_review" ->
            [ reviewed_by |-> proc.admin, reviewed_at |-> proc.at ]
      [] proc.op \in { "admin_request_more_info", "admin_reject_application" } ->
            [ reviewed_at |-> proc.at, decision_reason |-> Reason,
              reviewed_by |-> proc.admin ]
      [] proc.op = "admin_approve_application" ->
            [ reviewed_at |-> proc.at, reviewed_by |-> proc.admin ]
      [] OTHER -> << >>

\* One entry of a job's results.
Result(application_id, status) == [ app |-> application_id, status |-> status ]

\* What the caller of update_status does with an exception of it.
on_raise(proc, error) ==
    CASE proc.op = "expire_unverified_applications" ->
            [ proc EXCEPT !.pc = "expire", !.list = Tail(@),
                          !.results = Append(@, Result(proc.app, "error")) ]
      [] proc.op = "admin_start_review" /\ error = "InvalidStatusTransitionError" ->
            Done(proc, "CannotReviewApplicationError")
      [] /\ proc.op \in { "admin_request_more_info", "admin_reject_application",
                          "admin_approve_application" }
         /\ error = "InvalidStatusTransitionError" ->
            Done(proc, "CannotDecideApplicationError")
      [] proc.op = "admin_approve_application" /\ error # "InvalidStatusTransitionError" ->
            Done(proc, "SchoolProvisioningError")
      [] OTHER -> Done(proc, error)

\* The e-mail a caller sends once update_status has returned.
mail_after(proc, table) ==
    CASE proc.op = "verify_applicant" /\ table[proc.app].applicant_is_principal -> "under_review"
      [] proc.op = "confirm_principal" -> "under_review"
      [] proc.op = "admin_request_more_info" -> "more_info_requested"
      [] proc.op = "admin_reject_application" -> "application_rejected"
      [] proc.op = "expire_unverified_applications" -> "application_expired"
      [] OTHER -> "none"

\* verify_applicant returning right after update_status, whoever the
\* applicant is: the variant the principal's path is tested against.
on_return_without_principal_token(proc, table) ==
    CASE proc.op = "expire_unverified_applications" ->
            [ proc EXCEPT !.pc = "expire", !.list = Tail(@),
                          !.results = Append(@, Result(proc.app, "expired")) ]
      [] proc.op = "admin_approve_application" -> [ proc EXCEPT !.pc = "welcome_email" ]
      [] OTHER -> Done(proc, "ok")

\* Where a caller goes on once update_status has returned.
on_return(proc, table) ==
    CASE proc.op = "verify_applicant" /\ ~ table[proc.app].applicant_is_principal ->
            [ proc EXCEPT !.pc = "principal_token" ]
      [] proc.op = "expire_unverified_applications" ->
            [ proc EXCEPT !.pc = "expire", !.list = Tail(@),
                          !.results = Append(@, Result(proc.app, "expired")) ]
      [] proc.op = "admin_approve_application" -> [ proc EXCEPT !.pc = "welcome_email" ]
      [] OTHER -> Done(proc, "ok")

\* update_status, first half: the read and the validation, for a caller whose
\* session holds no instance of the application (a job item, a direct call).
UpdateStatusCheck(p) ==
    /\ procs[p].pc = "us_check"
    /\ LET proc == procs[p] IN
       procs' = [procs EXCEPT ![p] =
          IF proc.app \notin DOMAIN apps THEN on_raise(proc, "ValueError")
          ELSE LET current_status == apps[proc.app].status IN
               IF update_status_allowed(current_status, proc.target)
               THEN [ proc EXCEPT !.pc = "us_commit", !.seen = current_status, !.at = now ]
               ELSE on_raise([proc EXCEPT !.seen = current_status],
                             "InvalidStatusTransitionError")]
    /\ UNCHANGED << now, apps, tokens, schools, users, redis, nextRaw, mail, links, consumed, scheduler >>

\* update_status, second half: the commit, and the e-mail that follows it.
UpdateStatusCommit(p) ==
    /\ procs[p].pc = "us_commit"
    /\ LET proc == procs[p]
           id == proc.app
           written == update_status_write(apps, id, proc.seen, proc.target,
                                          update_kwargs(proc, apps))
       IN IF unique_pending_violated(apps, id, apps[id].school_name, apps[id].city,
                                     written[id].status)
          THEN /\ procs' = [procs EXCEPT ![p] = on_raise(proc, "IntegrityError")]
               /\ UNCHANGED << apps, schools, users, mail, consumed >>
          ELSE /\ apps' = written
               /\ procs' = [procs EXCEPT ![p] = on_return(proc, apps)]
               /\ consumed' = IF /\ proc.op \in { "verify_applicant", "confirm_principal" }
                                 /\ on_return(proc, apps).pc = "done"
                              THEN consumed \cup { << proc.op, proc.tok >> }
                              ELSE consumed
               /\ mail' = IF mail_after(proc, apps) = "none" THEN mail
                          ELSE Sent(mail, id, mail_after(proc, apps))
               /\ IF proc.op = "admin_approve_application"
                  THEN /\ schools' = schools \cup { id }
                       /\ users' = users \cup
                             { [ email |-> proc.email, name |-> proc.name,
                                 school_id |-> id ] }
                  ELSE UNCHANGED << schools, users >>
    /\ UNCHANGED << now, tokens, redis, nextRaw, links, scheduler >>

(***************************************************************************)
(* service.py: verify_applicant, confirm_principal                         *)
(***************************************************************************)
\* The token strings a caller may present: every string an e-mail carried,
\* and one that no e-mail carried.
TokenStrings == { l.token : l \in links } \cup { 0 }

\* _validate_token and the status check of the two handlers.
consume_token(p, op, token_string, token_type, expected_state, target) ==
    /\ procs[p].op = "idle"
    /\ op \in Issuers => CanIssue
    /\ LET me == [Idle EXCEPT !.op = op, !.tok = token_string]
           outcome == validate_token(tokens, token_string, token_type, now)
       IN procs' = [procs EXCEPT ![p] =
            IF outcome # "ok" THEN Done(me, outcome)
            ELSE LET id == ApplicationOf(tokens, hash_token(token_string)) IN
                 IF apps[id].status # expected_state
                 THEN Done([me EXCEPT !.app = id, !.seen = apps[id].status],
                           "InvalidApplicationStateError")
                 ELSE [me EXCEPT !.pc = "mark_token", !.app = id,
                                 !.seen = apps[id].status, !.target = target[id]]]
    /\ UNCHANGED << now, apps, tokens, schools, users, redis, nextRaw, mail, links, consumed, scheduler >>

VerifyApplicant(p, token_string) ==
    consume_token(p, "verify_applicant", token_string, APPLICANT_VERIFICATION,
                  AWAITING_APPLICANT_VERIFICATION,
                  [ id \in DOMAIN apps |->
                      IF apps[id].applicant_is_principal THEN PENDING_REVIEW
                      ELSE AWAITING_PRINCIPAL_CONFIRMATION ])

ConfirmPrincipal(p, token_string) ==
    consume_token(p, "confirm_principal", token_string, PRINCIPAL_CONFIRMATION,
                  AWAITING_PRINCIPAL_CONFIRMATION,
                  [ id \in DOMAIN apps |-> PENDING_REVIEW ])

\* mark_token_used and its commit, then the read and the validation of
\* update_status.  db.get answers from the session's identity map unless the
\* commit has expired the instance (the session factory, core/database.py,
\* decides that): the status validated is the one loaded with the token, or
\* the stored one.
MarkTokenUsed(p) ==
    /\ procs[p].pc = "mark_token"
    /\ LET proc == procs[p]
           digest == hash_token(proc.tok)
       IN IF get_by_token(tokens, digest) = {}
          THEN /\ procs' = [procs EXCEPT ![p] = Done(proc, "ValueError")]
               /\ tokens' = tokens
          ELSE /\ tokens' = mark_token_used(tokens, digest, now)
               /\ \E current_status \in { proc.seen, apps[proc.app].status } :
                    procs' = [procs EXCEPT ![p] =
                       IF update_status_allowed(current_status, proc.target)
                       THEN [ proc EXCEPT !.pc = "us_commit",
                                          !.seen = current_status, !.at = now ]
                       ELSE on_raise([proc EXCEPT !.seen = current_status],
                                     "InvalidStatusTransitionError")]
    /\ UNCHANGED << now, apps, schools, users, redis, nextRaw, mail, links, consumed, scheduler >>

\* verify_applicant, the applicant is not the principal: the principal's
\* token and the confirmation e-mail.
PrincipalToken(p) ==
    /\ procs[p].pc = "principal_token"
    /\ nextRaw < MaxTokens
    /\ LET principal_token == nextRaw + 1
           id == procs[p].app
       IN /\ nextRaw' = principal_token
          /\ tokens' = tokens \cup
                { create_token(id, hash_token(principal_token), PRINCIPAL_CONFIRMATION,
                               calculate_token_expiry(now), now) }
          /\ mail' = Sent(mail, id, "principal_confirmation")
          /\ links' = links \cup
                { [app |-> id, type |-> PRINCIPAL_CONFIRMATION, token |-> principal_token,
                    row |-> hash_token(principal_token), at |-> now,
                    by |-> "verify_applicant"] }
    /\ procs' = [procs EXCEPT ![p] = Done(@, "ok")]
    /\ consumed' = consumed \cup { << procs[p].op, procs[p].tok >> }
    /\ UNCHANGED << now, apps, schools, users, redis, scheduler >>

(***************************************************************************)
(* service.py: resend_verification                                         *)
(***************************************************************************)
RESEND_RATE_LIMIT_MAX_REQUESTS == 3
RESEND_RATE_LIMIT_WINDOW_SECONDS == 3600

\* _check_rate_limit that lets every request through: the variant the limit
\* is tested against.
rate_limit_never_reached(current_count) == FALSE

\* _check_rate_limit: the test of the counter it has read (a key that does not
\* exist counts as 0).
rate_limit_reached(current_count) == current_count >= RESEND_RATE_LIMIT_MAX_REQUESTS

\* _check_rate_limit: retry_after_seconds, from the TTL of the key.
retry_after(ttl) == IF ttl > 60 THEN ttl ELSE 60
Emails == { ApplicantEmail, "P@X.org" }

\* What get_redis hands to the handler: None (the client was never
\* initialised or is closed), or the client, with the server reachable or not.
RedisClients == { "None", "connected", "unreachable" }

\* The lookups and checks, and the read of the counter in _check_rate_limit.
ResendVerification(p, application_id, email, redis_client) ==
    /\ procs[p].op = "idle"
    /\ LET me == [Idle EXCEPT !.op = "resend_verification", !.app = application_id,
                              !.email = email]
       IN procs' = [procs EXCEPT ![p] =
            IF application_id \notin DOMAIN apps THEN Done(me, "ApplicationNotFoundError")
            ELSE LET application == apps[application_id] IN
                 IF LOWER(email) # LOWER(get_effective_applicant_email_from_model(application))
                     THEN Done(me, "InvalidEmailError")
                 ELSE IF application.status \notin { AWAITING_APPLICANT_VERIFICATION,
                                                     AWAITING_PRINCIPAL_CONFIRMATION }
                     THEN Done(me, "AlreadyVerifiedError")
                 ELSE IF redis_client = "None"
                     THEN Done(me, "ApplicationServiceError: SERVICE_UNAVAILABLE")
                 ELSE IF redis_client = "unreachable"
                     THEN Done(me, "ConnectionError")
                 ELSE IF rate_limit_reached(redis[application_id])
                     THEN Done(me, "RateLimitExceededError")
                 ELSE [me EXCEPT !.pc = "delete_tokens", !.seen = application.status]]
    /\ procs'[p].pc = "delete_tokens" => CanIssue
    /\ UNCHANGED << now, apps, tokens, schools, users, redis, nextRaw, mail, links, consumed, scheduler >>

\* The pipeline of _check_rate_limit (INCR, EXPIRE), then
\* delete_tokens_for_application for the type the loaded status asks for.
ResendDelete(p) ==
    /\ procs[p].pc = "delete_tokens"
    /\ LET proc == procs[p]
           token_type == IF proc.seen = AWAITING_APPLICANT_VERIFICATION
                         THEN APPLICANT_VERIFICATION ELSE PRINCIPAL_CONFIRMATION
       IN /\ redis' = [redis EXCEPT ![proc.app] = @ + 1]
          /\ tokens' = delete_tokens_for_application(tokens, proc.app, token_type)
          /\ procs' = [procs EXCEPT ![p] = [proc EXCEPT !.pc = "resend_token"]]
    /\ UNCHANGED << now, apps, schools, users, nextRaw, mail, links, consumed, scheduler >>

\* The new token and its e-mail.
ResendToken(p) ==
    /\ procs[p].pc = "resend_token"
    /\ nextRaw < MaxTokens
    /\ LET proc == procs[p]
           new_token == nextRaw + 1
           token_type == IF proc.seen = AWAITING_APPLICANT_VERIFICATION
                         THEN APPLICANT_VERIFICATION ELSE PRINCIPAL_CONFIRMATION
       IN /\ nextRaw' = new_token
          /\ tokens' = tokens \cup
                { create_token(proc.app, hash_token(new_token), token_type,
                               calculate_token_expiry(now), now) }
          /\ mail' = Sent(mail, proc.app,
                          IF token_type = APPLICANT_VERIFICATION
                          THEN "applicant_verification" ELSE "principal_confirmation")
          /\ links' = links \cup
                { [app |-> proc.app, type |-> token_type, token |-> new_token,
                    row |-> hash_token(new_token), at |-> now,
                    by |-> "resend_verification"] }
          /\ procs' = [procs EXCEPT ![p] = Done([proc EXCEPT !.tok = new_token], "ok")]
    /\ UNCHANGED << now, apps, schools, users, redis, consumed, scheduler >>

(***************************************************************************)
(* service.py: the admin operations.  Each loads the application, checks   *)
(* its status and calls update_status on the instance it has loaded; the   *)
(* commit is a later step.                                                 *)
(***************************************************************************)
REVIEWABLE_STATUSES == { PENDING_REVIEW }
DECIDABLE_STATUSES == { UNDER_REVIEW, MORE_INFO_REQUESTED, PENDING_REVIEW }

admin_operation(p, op, application_id, admin_id, statuses, refusal, target) ==
    /\ procs[p].op = "idle"
    /\ LET me == [Idle EXCEPT !.op = op, !.app = application_id, !.admin = admin_id,
                              !.target = target, !.at = now]
       IN procs' = [procs EXCEPT ![p] =
            IF application_id \notin DOMAIN apps THEN Done(me, "ApplicationNotFoundError")
            ELSE LET loaded == [me EXCEPT !.seen = apps[application_id].status] IN
                 IF loaded.seen \notin statuses THEN Done(loaded, refusal)
                 ELSE IF update_status_allowed(loaded.seen, target)
                     THEN [loaded EXCEPT !.pc = "us_commit"]
                 ELSE on_raise(loaded, "InvalidStatusTransitionError")]
    /\ UNCHANGED << now, apps, tokens, schools, users, redis, nextRaw, mail, links, consumed, scheduler >>

AdminStartReview(p, application_id, admin_id) ==
    admin_operation(p, "admin_start_review", application_id, admin_id,
                    REVIEWABLE_STATUSES, "CannotReviewApplicationError", UNDER_REVIEW)

AdminRequestMoreInfo(p, application_id, admin_id) ==
    admin_operation(p, "admin_request_more_info", application_id, admin_id,
                    DECIDABLE_STATUSES, "CannotDecideApplicationError", MORE_INFO_REQUESTED)

AdminRejectApplication(p, application_id, admin_id) ==
    admin_operation(p, "admin_reject_application", application_id, admin_id,
                    DECIDABLE_STATUSES, "CannotDecideApplicationError", REJECTED)

(***************************************************************************)
(* service.py: admin_approve_application                                   *)
(***************************************************************************)
MaxNotes == 1

\* add_internal_note: the list of the loaded instance with one more note.
add_internal_note(table, application_id, note, created_by) ==
    [ table EXCEPT ![application_id].internal_notes =
        Append(@, [ note |-> note, created_by |-> created_by ]) ]

\* The choice of the school's admin, had admin_choice not been looked at.
designated_admin_email_ignoring_choice(application) ==
    IF application.applicant_is_principal
    THEN application.principal_email
    ELSE IF application.applicant_email # "" THEN application.applicant_email
    ELSE application.principal_email

\* Who becomes the school's admin: admin_name.
designated_admin_name(application) ==
    IF application.applicant_is_principal \/ application.admin_choice = "PRINCIPAL"
    THEN application.principal_name
    ELSE IF application.applicant_name # "" THEN application.applicant_name
    ELSE application.principal_name

\* Who becomes the school's admin: admin_email.
designated_admin_email(application) ==
    IF application.applicant_is_principal \/ application.admin_choice = "PRINCIPAL"
    THEN application.principal_email
    ELSE IF application.applicant_email # "" THEN application.applicant_email
    ELSE application.principal_email

\* UserRepository.get_by_email that finds nobody: the variant the refusal of
\* an approval is tested against.
get_by_email_nobody(table, email) == {}

\* UserRepository.get_by_email: the rows with this address.
get_by_email(table, email) == { u \in table : u.email = email }

\* The lookups and checks up to UserRepository.get_by_email.  An existing
\* account raises inside the try block: the handler of Exception adds an
\* internal note and raises SchoolProvisioningError.
AdminApproveApplication(p, application_id, admin_id) ==
    /\ procs[p].op = "idle"
    /\ LET me == [Idle EXCEPT !.op = "admin_approve_application", !.app = application_id,
                              !.admin = admin_id, !.target = APPROVED]
       IN IF application_id \notin DOMAIN apps
          THEN /\ procs' = [procs EXCEPT ![p] = Done(me, "ApplicationNotFoundError")]
               /\ apps' = apps
          ELSE LET application == apps[application_id]
                   loaded == [me EXCEPT !.seen = application.status,
                                        !.email = designated_admin_email(application),
                                        !.name = designated_admin_name(application)]
               IN IF application.status \notin DECIDABLE_STATUSES
                  THEN /\ procs' = [procs EXCEPT ![p] =
                                       Done(loaded, "CannotDecideApplicationError")]
                       /\ apps' = apps
                  ELSE IF get_by_email(users, loaded.email) # {}
                  THEN /\ Len(application.internal_notes) < MaxNotes
                       /\ apps' = add_internal_note(apps, application_id,
                                                    "Provisioning failed", admin_id)
                       /\ procs' = [procs EXCEPT ![p] =
                                       Done(loaded, "SchoolProvisioningError")]
                  ELSE /\ procs' = [procs EXCEPT ![p] = [loaded EXCEPT !.pc = "provision"]]
                       /\ apps' = apps
    /\ UNCHANGED << now, tokens, schools, users, redis, nextRaw, mail, links, consumed, scheduler >>

\* SchoolRepository.create and UserRepository.create flush their INSERTs into
\* the open transaction (schools.application_id and users.email are unique: an
\* INSERT waits for a transaction that holds the same key), then
\* update_application_decision validates on the loaded instance.
Provision(p) ==
    /\ procs[p].pc = "provision"
    /\ LET proc == procs[p] IN
       /\ ~ \E q \in Procs \ { p } :
              /\ procs[q].op = "admin_approve_application"
              /\ procs[q].pc = "us_commit"
              /\ procs[q].app = proc.app \/ procs[q].email = proc.email
       /\ procs' = [procs EXCEPT ![p] =
            IF proc.app \in schools \/ \E u \in users : u.email = proc.email
                THEN on_raise(proc, "IntegrityError")
            ELSE IF update_status_allowed(proc.seen, proc.target)
                THEN [proc EXCEPT !.pc = "us_commit", !.at = now]
            ELSE on_raise(proc, "InvalidStatusTransitionError")]
    /\ UNCHANGED << now, apps, tokens, schools, users, redis, nextRaw, mail, links, consumed, scheduler >>

\* The texts of the notes the admins add, and how many notes an application
\* takes within the bound.
Notes == { "first", "second" }
MaxAdded == 2

\* admin_add_internal_note: the application is loaded; repository's
\* add_internal_note gets the same instance from its session.
AdminAddInternalNote(p, application_id, admin_id, note) ==
    /\ procs[p].op = "idle"
    /\ application_id \in DOMAIN apps =>
          Len(apps[application_id].internal_notes)
            + Cardinality({ q \in Procs : procs[q].pc = "note_commit" }) < MaxAdded
    /\ LET me == [Idle EXCEPT !.op = "admin_add_internal_note", !.app = application_id,
                              !.admin = admin_id, !.note = note]
       IN procs' = [procs EXCEPT ![p] =
            IF application_id \notin DOMAIN apps THEN Done(me, "ApplicationNotFoundError")
            ELSE [me EXCEPT !.pc = "note_commit",
                            !.notes = apps[application_id].internal_notes]]
    /\ UNCHANGED << now, apps, tokens, schools, users, redis, nextRaw, mail, links, consumed,
                    scheduler >>

\* The assignment of the new list, [*application.internal_notes, new_note],
\* and the commit: the UPDATE writes the whole column.
AddInternalNoteCommit(p) ==
    /\ procs[p].pc = "note_commit"
    /\ LET proc == procs[p] IN
       /\ apps' = add_internal_note([apps EXCEPT ![proc.app].internal_notes = proc.notes],
                                    proc.app, proc.note, proc.admin)
       /\ procs' = [procs EXCEPT ![p] = Done(proc, "ok")]
    /\ UNCHANGED << now, tokens, schools, users, redis, nextRaw, mail, links, consumed,
                    scheduler >>

\* The end of admin_approve_application, after the commit: the welcome
\* e-mail with the credentials.  The value send_application_approved returns
\* is not looked at; an exception of it is caught, and an internal note is
\* added, and the approval returns its result either way.
SendApplicationApproved(p, email_sent) ==
    /\ procs[p].pc = "welcome_email"
    /\ LET proc == procs[p] IN
       /\ email_sent = "raises" => Len(apps[proc.app].internal_notes) < MaxNotes
       /\ mail' = Sent(mail, proc.app, "application_approved")
       /\ apps' = IF email_sent = "raises"
                  THEN add_internal_note(apps, proc.app, "Welcome email failed to send",
                                         proc.admin)
                  ELSE apps
       /\ procs' = [procs EXCEPT ![p] =
             Done([proc EXCEPT !.sent = << proc.email, proc.name >>], "ok")]
    /\ UNCHANGED << now, tokens, schools, users, redis, nextRaw, links, consumed, scheduler >>

WelcomeEmail(p) == \E email_sent \in send_email : SendApplicationApproved(p, email_sent)

(***************************************************************************)
(* jobs.py                                                                 *)
(***************************************************************************)
\* The rows of a query over applications, as the list a job iterates over.
ApplicationItems(S) ==
    LET l == ResultList(S) IN [ i \in DOMAIN l |-> [ app |-> l[i], token |-> 0 ] ]

\* The (application, token) rows of a join.
TokenItems(rows) ==
    LET l == ResultList({ r.token : r \in rows })
    IN [ i \in DOMAIN l |-> [ app |-> ApplicationOf(rows, l[i]), token |-> l[i] ] ]

\* send_verification_reminders: executed_at and the first query, for a run
\* that starts at time t.
send_verification_reminders(t) ==
    [Idle EXCEPT !.op = "send_verification_reminders", !.pc = "remind",
                 !.at = t, !.phase = "applicant",
                 !.list = ApplicationItems(get_applications_needing_reminder(
                              apps, t - REMINDER_THRESHOLD_HOURS,
                              AWAITING_APPLICANT_VERIFICATION))]

SendVerificationReminders(p) ==
    /\ procs[p].op = "idle"
    /\ procs' = [procs EXCEPT ![p] = send_verification_reminders(now)]
    /\ UNCHANGED << now, apps, tokens, schools, users, redis, nextRaw, mail, links, consumed, scheduler >>

\* What is left of a turn once send_verification_reminder is back: a
\* returned value, true or false, is only logged and mark_reminder_sent
\* follows; an exception skips the rest of the turn.
reminder_marked_on_delivery(email_sent) == email_sent = "True"

reminder_marked(email_sent) == email_sent \in { "True", "False" }

\* The status a turn returns, or the one the loop records for an exception.
reminder_status(email_sent) ==
    CASE email_sent = "True" -> "sent"
      [] email_sent = "False" -> "marked_sent_email_failed"
      [] OTHER -> "error"

\* One turn of a loop of send_verification_reminders:
\* _process_applicant_verification_reminder or
\* _process_principal_confirmation_reminder_with_token, with the try/except
\* of the loop around it.  The e-mail carries token.token, the stored value.
ProcessReminderWith(p, email_sent) ==
    /\ procs[p].pc = "remind"
    /\ procs[p].list # << >>
    /\ LET proc == procs[p]
           item == Head(proc.list)
           valid == get_valid_token_for_application(tokens, item.app,
                                                    APPLICANT_VERIFICATION, now)
           outcome == IF proc.phase = "principal" THEN reminder_status(email_sent)
                      ELSE IF valid = {} THEN "skipped"
                      ELSE IF Cardinality(valid) > 1 THEN "error"
                      ELSE reminder_status(email_sent)
           token == IF proc.phase = "principal" THEN item.token
                    ELSE (CHOOSE r \in valid : TRUE).token
           token_type == IF proc.phase = "principal" THEN PRINCIPAL_CONFIRMATION
                         ELSE APPLICANT_VERIFICATION
       IN /\ procs' = [procs EXCEPT ![p] =
                [proc EXCEPT !.list = Tail(@),
                             !.results = Append(@, Result(item.app, outcome))]]
          /\ IF outcome \in { "sent", "marked_sent_email_failed" }
             THEN /\ mail' = Sent(mail, item.app, "verification_reminder")
                  /\ links' = links \cup
                        { [app |-> item.app, type |-> token_type, token |-> token,
                          row |-> token, at |-> now,
                          by |-> "send_verification_reminders"] }
                  /\ apps' = IF reminder_marked(email_sent)
                             THEN mark_reminder_sent(apps, item.app, now)
                             ELSE apps
             ELSE UNCHANGED << mail, links, apps >>
    /\ UNCHANGED << now, tokens, schools, users, redis, nextRaw, consumed, scheduler >>

ProcessReminder(p) == \E email_sent \in send_email : ProcessReminderWith(p, email_sent)

\* A loop of send_verification_reminders is over: the second query, or the end.
RemindersNext(p) ==
    /\ procs[p].pc = "remind"
    /\ procs[p].list = << >>
    /\ procs' = [procs EXCEPT ![p] =
          IF @.phase = "applicant"
          THEN [@ EXCEPT !.phase = "principal",
                         !.list = TokenItems(get_principal_tokens_needing_reminder(
                                      apps, tokens, procs[p].at - REMINDER_THRESHOLD_HOURS, now))]
          ELSE Done(@, "ok")]
    /\ UNCHANGED << now, apps, tokens, schools, users, redis, nextRaw, mail, links, consumed, scheduler >>

\* expire_unverified_applications: executed_at and the first query, for a
\* run that starts at time t.
expire_unverified_applications(t) ==
    [Idle EXCEPT !.op = "expire_unverified_applications", !.pc = "expire",
                 !.at = t, !.phase = "applicant",
                 !.list = ApplicationItems(get_expired_unverified(
                              apps, t - EXPIRY_THRESHOLD_HOURS))]

ExpireUnverifiedApplications(p) ==
    /\ procs[p].op = "idle"
    /\ procs' = [procs EXCEPT ![p] = expire_unverified_applications(now)]
    /\ UNCHANGED << now, apps, tokens, schools, users, redis, nextRaw, mail, links, consumed, scheduler >>

\* One turn of a loop of expire_unverified_applications:
\* _process_application_expiry opens a session and calls
\* mark_application_expired, that is update_status with EXPIRED.
ProcessExpiry(p) ==
    /\ procs[p].pc = "expire"
    /\ procs[p].list # << >>
    /\ procs' = [procs EXCEPT ![p] =
          [@ EXCEPT !.pc = "us_check", !.app = Head(procs[p].list).app,
                    !.target = EXPIRED]]
    /\ UNCHANGED << now, apps, tokens, schools, users, redis, nextRaw, mail, links, consumed, scheduler >>

\* A loop of expire_unverified_applications is over.
ExpiryNext(p) ==
    /\ procs[p].pc = "expire"
    /\ procs[p].list = << >>
    /\ procs' = [procs EXCEPT ![p] =
          IF @.phase = "applicant"
          THEN [@ EXCEPT !.phase = "principal",
                         !.list = TokenItems(get_principal_tokens_to_expire(
                                      apps, tokens, procs[p].at - EXPIRY_THRESHOLD_HOURS))]
          ELSE Done(@, "ok")]
    /\ UNCHANGED << now, apps, tokens, schools, users, redis, nextRaw, mail, links, consumed, scheduler >>

(***************************************************************************)
(* core/scheduler.py, and the startup in main.py: lifespan.                *)
(***************************************************************************)
JOB_ID_SEND_REMINDERS == "school_applications_send_reminders"
JOB_ID_EXPIRE_APPLICATIONS == "school_applications_expire_applications"

\* register_job: the function goes into _job_registry; it is added to the
\* scheduler, with its trigger, only if the scheduler exists.
register_job(sched, job_id) ==
    [ sched EXCEPT !.registry = @ \cup { job_id },
                   !.jobs = IF sched.instance = "None" THEN @ ELSE @ \cup { job_id } ]

\* jobs.py: register_school_application_jobs, the first step of the startup.
RegisterSchoolApplicationJobs ==
    /\ scheduler.lifespan = "startup"
    /\ scheduler' =
          [ register_job(register_job(scheduler, JOB_ID_SEND_REMINDERS),
                         JOB_ID_EXPIRE_APPLICATIONS)
            EXCEPT !.lifespan = "registered" ]
    /\ UNCHANGED << now, apps, tokens, schools, users, redis, nextRaw, procs, mail, links,
                    consumed >>

\* start_scheduler, the second step: a running scheduler is kept; otherwise
\* a new AsyncIOScheduler is made, which has no job, and started.
StartScheduler ==
    /\ scheduler.lifespan = "registered"
    /\ scheduler' =
          IF scheduler.instance = "running"
          THEN [ scheduler EXCEPT !.lifespan = "started" ]
          ELSE [ scheduler EXCEPT !.lifespan = "started", !.instance = "running",
                                  !.jobs = {} ]
    /\ UNCHANGED << now, apps, tokens, schools, users, redis, nextRaw, procs, mail, links,
                    consumed >>

\* The running scheduler fires the interval trigger of job_id.
Due(job_id) == scheduler.instance = "running" /\ job_id \in scheduler.jobs

\* Time passes, more than the hour of the interval triggers: the running
\* scheduler starts the jobs that were added to it (no run of theirs is
\* under way: the slots are free).
SchedulerTick ==
    /\ \A p \in Procs : procs[p].op = "idle"
    /\ now < MaxTime
    /\ now' = now + ClockStep
    /\ redis' = [a \in AppIds |-> 0]
    /\ procs' = [ p \in Procs |->
                    IF p = 1 /\ Due(JOB_ID_EXPIRE_APPLICATIONS)
                        THEN expire_unverified_applications(now')
                    ELSE IF p = 2 /\ Due(JOB_ID_SEND_REMINDERS)
                        THEN send_verification_reminders(now')
                    ELSE procs[p] ]
    /\ UNCHANGED << apps, tokens, schools, users, nextRaw, mail, links, consumed, scheduler >>

\* trigger_job_manually (POST of main.py): the function of the registry is
\* called directly; an unknown job_id is a ValueError.
TriggerJobManually(p, job_id) ==
    /\ procs[p].op = "idle"
    /\ procs' = [procs EXCEPT ![p] =
          IF job_id \notin scheduler.registry
              THEN Done([Idle EXCEPT !.op = "trigger_job_manually"], "ValueError")
          ELSE IF job_id = JOB_ID_SEND_REMINDERS THEN send_verification_reminders(now)
          ELSE expire_unverified_applications(now)]
    /\ UNCHANGED << now, apps, tokens, schools, users, redis, nextRaw, mail, links, consumed,
                    scheduler >>

(***************************************************************************)
(* router.py: GET /principal-view calls service.get_principal_view.  The   *)
(* call validates the principal's token, reads the application the token   *)
(* belongs to, requires it to await the principal's confirmation and       *)
(* answers with a summary of it.  It writes nothing.                       *)
(***************************************************************************)
get_principal_view(rows, table, token_string, t) ==
    LET outcome == validate_token(rows, token_string, PRINCIPAL_CONFIRMATION, t) IN
    IF outcome # "ok" THEN outcome
    ELSE IF table[ApplicationOf(rows, hash_token(token_string))].status
               # AWAITING_PRINCIPAL_CONFIRMATION
         THEN "InvalidApplicationStateError"
         ELSE "ok"

GetPrincipalView(p, token_string) ==
    /\ procs[p].op = "idle"
    /\ LET me == [Idle EXCEPT !.op = "get_principal_view", !.tok = token_string]
           found == get_by_token(tokens, hash_token(token_string))
           seen == IF found = {} THEN me
                   ELSE LET id == ApplicationOf(tokens, hash_token(token_string))
                        IN [me EXCEPT !.app = id, !.seen = apps[id].status]
       IN procs' = [procs EXCEPT ![p] =
             Done(seen, get_principal_view(tokens, apps, token_string, now))]
    /\ UNCHANGED << now, apps, tokens, schools, users, redis, nextRaw, mail, links, consumed, scheduler >>

(***************************************************************************)
(* service.py: get_application_status.  A read: the application is loaded, *)
(* the claimed address is compared with the effective applicant's, and the *)
(* response carries the application's status (kept in seen) and the        *)
(* progress steps.                                                         *)
(***************************************************************************)
StatusStep(name, completed, completed_at) ==
    [ name |-> name, completed |-> completed, completed_at |-> completed_at ]

\* _build_status_steps, had it listed the principal's step for every
\* application.
build_status_steps_principal_always(application) ==
    << StatusStep("Application Submitted", TRUE, application.submitted_at),
       StatusStep("Email Verified", application.applicant_verified_at # NULL,
                  application.applicant_verified_at),
       StatusStep("Principal Confirmed", application.principal_confirmed_at # NULL,
                  application.principal_confirmed_at),
       StatusStep("Under Review",
                  application.status \in { UNDER_REVIEW, MORE_INFO_REQUESTED, APPROVED,
                                           REJECTED },
                  IF application.status \in { UNDER_REVIEW, MORE_INFO_REQUESTED, APPROVED,
                                              REJECTED }
                  THEN application.reviewed_at ELSE NULL),
       StatusStep("Decision", application.status \in { APPROVED, REJECTED },
                  IF application.status \in { APPROVED, REJECTED }
                  THEN application.reviewed_at ELSE NULL) >>

\* _build_status_steps
build_status_steps(application) ==
    LET review_statuses == { UNDER_REVIEW, MORE_INFO_REQUESTED, APPROVED, REJECTED }
        under_review_completed == application.status \in review_statuses
        decision_statuses == { APPROVED, REJECTED }
        decision_completed == application.status \in decision_statuses
    IN << StatusStep("Application Submitted", TRUE, application.submitted_at),
          StatusStep("Email Verified", application.applicant_verified_at # NULL,
                     application.applicant_verified_at) >>
       \o ( IF ~ application.applicant_is_principal
            THEN << StatusStep("Principal Confirmed",
                               application.principal_confirmed_at # NULL,
                               application.principal_confirmed_at) >>
            ELSE << >> )
       \o << StatusStep("Under Review", under_review_completed,
                        IF under_review_completed THEN application.reviewed_at ELSE NULL),
             StatusStep("Decision", decision_completed,
                        IF decision_completed THEN application.reviewed_at ELSE NULL) >>

GetApplicationStatus(p, application_id, email) ==
    /\ procs[p].op = "idle"
    /\ LET me == [Idle EXCEPT !.op = "get_application_status", !.app = application_id]
       IN procs' = [procs EXCEPT ![p] =
            IF application_id \notin DOMAIN apps THEN Done(me, "ApplicationNotFoundError")
            ELSE LET application == apps[application_id] IN
                 IF LOWER(email) # LOWER(get_effective_applicant_email_from_model(application))
                     THEN Done(me, "InvalidEmailError")
                 ELSE Done([me EXCEPT !.seen = application.status,
                                      !.steps = build_status_steps(application)], "ok")]
    /\ UNCHANGED << now, apps, tokens, schools, users, redis, nextRaw, mail, links, consumed, scheduler >>

(***************************************************************************)
(* A direct call of repository.update_status.                              *)
(***************************************************************************)
UpdateStatus(p, id, status) ==
    /\ procs[p].op = "idle"
    /\ procs' = [procs EXCEPT ![p] =
          [Idle EXCEPT !.op = "update_status", !.pc = "us_check", !.app = id,
                       !.target = status]]
    /\ UNCHANGED << now, apps, tokens, schools, users, redis, nextRaw, mail, links, consumed, scheduler >>

(***************************************************************************)
(* The specifications.  The program is one; a specification is a workload  *)
(* of it: which handlers and jobs are called, and whether calls overlap.   *)
(***************************************************************************)
\* The public requests: a call starts in slot p, or the call in slot p goes on.
\* These workloads draw MaxDrawn raw tokens (the workload of the resends draws
\* them all).
PublicRequest(p, n) ==
    \/ \E data \in SubmitData :
          ApplicationsBelow(n) /\ TokensBelow(MaxDrawn) /\ SubmitApplication(p, data)
    \/ SubmitCreate(p)
    \/ SubmitToken(p)
    \/ \E token_string \in TokenStrings :
          TokensBelow(MaxDrawn) /\ VerifyApplicant(p, token_string)
    \/ \E token_string \in TokenStrings : ConfirmPrincipal(p, token_string)
    \/ MarkTokenUsed(p)
    \/ PrincipalToken(p)
    \/ \E id \in AppIds, email \in Emails, redis_client \in RedisClients :
          TokensBelow(MaxDrawn) /\ ResendVerification(p, id, email, redis_client)
    \/ ResendDelete(p)
    \/ ResendToken(p)
    \/ UpdateStatusCommit(p)
    \/ Finish(p)

\* The admin requests.
AdminRequest(p) ==
    \/ \E id \in AppIds : AdminStartReview(p, id, Admin)
    \/ \E id \in AppIds : AdminRequestMoreInfo(p, id, Admin)
    \/ \E id \in AppIds : AdminRejectApplication(p, id, Admin)
    \/ \E id \in AppIds : AdminApproveApplication(p, id, Admin)
    \/ Provision(p)
    \/ WelcomeEmail(p)

\* The runs of the two jobs.
JobRun(p) ==
    \/ SendVerificationReminders(p)
    \/ ProcessReminder(p)
    \/ RemindersNext(p)
    \/ ExpireUnverifiedApplications(p)
    \/ ProcessExpiry(p)
    \/ ExpiryNext(p)
    \/ UpdateStatusCheck(p)

\* A run of a job that has started goes on.
JobRunning(p) ==
    \/ ProcessReminder(p)
    \/ RemindersNext(p)
    \/ ProcessExpiry(p)
    \/ ExpiryNext(p)
    \/ UpdateStatusCheck(p)

\* Public requests overlap; the clock stands still.
Next ==
    \E p \in Procs : PublicRequest(p, 1)

Spec == Init /\ [][Next]_vars

\* Submissions overlap.
NextSubmit ==
    \E p \in Procs :
        \/ \E data \in SubmitData : SubmitApplication(p, data)
        \/ SubmitCreate(p)
        \/ SubmitToken(p)
        \/ Finish(p)

SpecSubmit == Init /\ [][NextSubmit]_vars

\* Admin requests overlap with each other and with the public requests.
NextAdmin ==
    \/ PublicRequest(1, 1)
    \/ \E p \in Procs : AdminRequest(p) \/ UpdateStatusCommit(p) \/ Finish(p)

SpecAdmin == Init /\ [][NextAdmin]_vars

\* Job runs overlap with each other and with the public requests, as time
\* passes (a public request is over before the clock moves).
NextJobs ==
    \/ procs[1].op = "idle" /\ Tick
    \/ PublicRequest(1, 1)
    \/ \E p \in Procs : JobRun(p) \/ UpdateStatusCommit(p) \/ Finish(p)

SpecJobs == Init /\ [][NextJobs]_vars

\* One request or job run at a time, each run to its end, as time passes.
NextSeq ==
    \/ procs[1].op = "idle" /\ Tick
    \/ PublicRequest(1, MaxApps)
    \/ JobRun(1)

SpecSeq == Init /\ [][NextSeq]_vars

\* Direct calls of repository.update_status, one at a time, on the
\* applications that were submitted.
NextRepo ==
    \/ \E data \in SubmitData : ApplicationsBelow(1) /\ SubmitApplication(1, data)
    \/ SubmitCreate(1)
    \/ SubmitToken(1)
    \/ \E id \in AppIds, status \in ApplicationStatus : UpdateStatus(1, id, status)
    \/ UpdateStatusCheck(1)
    \/ UpdateStatusCommit(1)
    \/ Finish(1)

SpecRepo == Init /\ [][NextRepo]_vars

\* The applications of several schools are submitted, verified and decided,
\* one request at a time.
NextApprove ==
    \/ \E data \in SubmitData : TokensBelow(MaxDrawn) /\ SubmitApplication(1, data)
    \/ SubmitCreate(1)
    \/ SubmitToken(1)
    \/ \E token_string \in TokenStrings :
          TokensBelow(MaxDrawn) /\ VerifyApplicant(1, token_string)
    \/ \E token_string \in TokenStrings : ConfirmPrincipal(1, token_string)
    \/ MarkTokenUsed(1)
    \/ PrincipalToken(1)
    \/ AdminRequest(1)
    \/ UpdateStatusCommit(1)
    \/ Finish(1)

SpecApprove == Init /\ [][NextApprove]_vars

\* One application, and resend_verification called for it again and again, one
\* call at a time, as time passes (a call is over before the clock moves).
NextResend ==
    \/ procs[1].op = "idle" /\ Tick
    \/ \E data \in SubmitData : ApplicationsBelow(1) /\ SubmitApplication(1, data)
    \/ SubmitCreate(1)
    \/ SubmitToken(1)
    \/ \E token_string \in TokenStrings : VerifyApplicant(1, token_string)
    \/ \E token_string \in TokenStrings : ConfirmPrincipal(1, token_string)
    \/ MarkTokenUsed(1)
    \/ PrincipalToken(1)
    \/ \E id \in AppIds, email \in Emails, redis_client \in RedisClients :
          ResendVerification(1, id, email, redis_client)
    \/ ResendDelete(1)
    \/ ResendToken(1)
    \/ UpdateStatusCommit(1)
    \/ Finish(1)

SpecResend == Init /\ [][NextResend]_vars

\* One application on its way to the principal's confirmation: the e-mailed
\* links are opened, viewed and confirmed, one request at a time, as time
\* passes (a request is over before the clock moves).
NextView ==
    \/ procs[1].op = "idle" /\ Tick
    \/ \E data \in SubmitData : ApplicationsBelow(1) /\ SubmitApplication(1, data)
    \/ SubmitCreate(1)
    \/ SubmitToken(1)
    \/ \E token_string \in TokenStrings : VerifyApplicant(1, token_string)
    \/ \E token_string \in TokenStrings : GetPrincipalView(1, token_string)
    \/ \E token_string \in TokenStrings : ConfirmPrincipal(1, token_string)
    \/ MarkTokenUsed(1)
    \/ PrincipalToken(1)
    \/ UpdateStatusCommit(1)
    \/ Finish(1)

SpecView == Init /\ [][NextView]_vars

\* The applicant's side: an application is submitted and verified, its
\* status is asked for and its e-mails are asked for again, under the right
\* address and under a wrong one, one request at a time.
NextStatus ==
    \/ \E data \in SubmitData :
          ApplicationsBelow(1) /\ TokensBelow(MaxDrawn) /\ SubmitApplication(1, data)
    \/ SubmitCreate(1)
    \/ SubmitToken(1)
    \/ \E token_string \in TokenStrings :
          TokensBelow(MaxDrawn) /\ VerifyApplicant(1, token_string)
    \/ \E token_string \in TokenStrings : ConfirmPrincipal(1, token_string)
    \/ MarkTokenUsed(1)
    \/ PrincipalToken(1)
    \/ \E id \in AppIds, email \in Emails : GetApplicationStatus(1, id, email)
    \/ \E id \in AppIds, email \in Emails, redis_client \in RedisClients :
          TokensBelow(MaxDrawn) /\ ResendVerification(1, id, email, redis_client)
    \/ ResendDelete(1)
    \/ ResendToken(1)
    \/ UpdateStatusCommit(1)
    \/ Finish(1)

SpecStatus == Init /\ [][NextStatus]_vars

\* One application, and calls of resend_verification for it that overlap,
\* within one window of the counter.
NextResends ==
    \E p \in Procs :
        \/ \E data \in SubmitData : ApplicationsBelow(1) /\ SubmitApplication(p, data)
        \/ SubmitCreate(p)
        \/ SubmitToken(p)
        \/ \E id \in AppIds, email \in Emails, redis_client \in RedisClients :
              ResendVerification(p, id, email, redis_client)
        \/ ResendDelete(p)
        \/ ResendToken(p)
        \/ Finish(p)

SpecResends == Init /\ [][NextResends]_vars

\* One application is taken along the path of a request for more
\* information, one request at a time: the applicant and the principal use
\* their links, the admin starts the review, asks for more information once,
\* takes the review up again and approves.  Every call is the next one of
\* the path, and the callers do not give up (weak fairness of the workload).
NextPath ==
    \/ \E data \in SubmitData : ApplicationsBelow(1) /\ SubmitApplication(1, data)
    \/ SubmitCreate(1)
    \/ SubmitToken(1)
    \/ \E token_string \in TokenStrings :
          /\ validate_token(tokens, token_string, APPLICANT_VERIFICATION, now) = "ok"
          /\ VerifyApplicant(1, token_string)
    \/ \E token_string \in TokenStrings :
          /\ validate_token(tokens, token_string, PRINCIPAL_CONFIRMATION, now) = "ok"
          /\ ConfirmPrincipal(1, token_string)
    \/ MarkTokenUsed(1)
    \/ PrincipalToken(1)
    \/ \E id \in DOMAIN apps :
          /\ apps[id].status \in { PENDING_REVIEW, MORE_INFO_REQUESTED }
          /\ AdminStartReview(1, id, Admin)
    \/ \E id \in DOMAIN apps :
          /\ apps[id].status = UNDER_REVIEW
          /\ apps[id].decision_reason = NULL
          /\ AdminRequestMoreInfo(1, id, Admin)
    \/ \E id \in DOMAIN apps :
          /\ apps[id].status \in { UNDER_REVIEW, MORE_INFO_REQUESTED }
          /\ apps[id].decision_reason # NULL
          /\ AdminApproveApplication(1, id, Admin)
    \/ Provision(1)
    \/ UpdateStatusCommit(1)
    \/ Finish(1)

SpecPath == Init /\ [][NextPath]_vars /\ WF_vars(NextPath)

\* The application starts up and runs as time passes: applications are
\* submitted and left alone, the scheduler does what it was set up to do, and
\* an operator may trigger a job by hand.  What the program does by itself
\* it goes on doing (weak fairness); the operator may never call.
Unattended ==
    \/ RegisterSchoolApplicationJobs
    \/ StartScheduler
    \/ SchedulerTick
    \/ \E p \in Procs : JobRunning(p) \/ UpdateStatusCommit(p) \/ Finish(p)

NextStartup ==
    \/ Unattended
    \/ \E data \in SubmitData : ApplicationsBelow(1) /\ SubmitApplication(1, data)
    \/ SubmitCreate(1)
    \/ SubmitToken(1)
    \/ \E job_id \in { JOB_ID_SEND_REMINDERS, JOB_ID_EXPIRE_APPLICATIONS } :
          TriggerJobManually(1, job_id)

SpecStartup == Init /\ [][NextStartup]_vars /\ WF_vars(Unattended)

\* The reminder job runs at its interval while one application goes its way:
\* each time the clock moves a run of send_verification_reminders starts, and
\* the applicant and the principal may use their links between the runs.
\* The runs go on, and a handler that was called runs to its end (weak
\* fairness of each); nobody has to call.
MaxRuns == 4

HourlyReminders ==
    /\ \A p \in Procs : procs[p].op = "idle"
    /\ now < MaxRuns * ClockStep
    /\ now' = now + ClockStep
    /\ redis' = [a \in AppIds |-> 0]
    /\ procs' = [procs EXCEPT ![2] = send_verification_reminders(now')]
    /\ UNCHANGED << apps, tokens, schools, users, nextRaw, mail, links, consumed, scheduler >>

ReminderRuns ==
    \/ HourlyReminders
    \/ ProcessReminder(2)
    \/ RemindersNext(2)
    \/ Finish(2)

HandlersEnd ==
    \/ SubmitCreate(1)
    \/ SubmitToken(1)
    \/ MarkTokenUsed(1)
    \/ PrincipalToken(1)
    \/ UpdateStatusCommit(1)
    \/ Finish(1)

NextReminders ==
    \/ ReminderRuns
    \/ HandlersEnd
    \/ \E data \in SubmitData : ApplicationsBelow(1) /\ SubmitApplication(1, data)
    \/ \E token_string \in TokenStrings : VerifyApplicant(1, token_string)
    \/ \E token_string \in TokenStrings : ConfirmPrincipal(1, token_string)

SpecReminders ==
    Init /\ [][NextReminders]_vars /\ WF_vars(ReminderRuns) /\ WF_vars(HandlersEnd)

\* Admins add internal notes to the applications that were submitted, their
\* requests overlapping.
NextNotes ==
    \/ \E data \in SubmitData : ApplicationsBelow(1) /\ SubmitApplication(1, data)
    \/ SubmitCreate(1)
    \/ SubmitToken(1)
    \/ \E p \in Procs, id \in AppIds, note \in Notes :
          AdminAddInternalNote(p, id, Admin, note)
    \/ \E p \in Procs : AddInternalNoteCommit(p) \/ Finish(p)

SpecNotes == Init /\ [][NextNotes]_vars

\* One application is submitted; its applicant, who has the id from the
\* response, asks for the verification e-mail again, as time passes.
NextSubmitted ==
    \/ \A p \in Procs : procs[p].pc \in { "idle", "done" } /\ Tick
    \/ \E data \in SubmitData : ApplicationsBelow(1) /\ SubmitApplication(1, data)
    \/ SubmitCreate(1)
    \/ SubmitToken(1)
    \/ \E email \in Emails, redis_client \in RedisClients :
          /\ procs[1].pc = "done" /\ procs[1].res = "ok"
          /\ ResendVerification(2, procs[1].app, email, redis_client)
    \/ ResendDelete(2)
    \/ ResendToken(2)
    \/ Finish(2)

SpecSubmitted == Init /\ [][NextSubmitted]_vars

\* One application goes its way, one request at a time: the applicant and
\* the principal use their links, the admin reviews and decides, and the
\* applicant asks for the status at every stage.
NextProgress ==
    \/ \E data \in SubmitData : ApplicationsBelow(1) /\ SubmitApplication(1, data)
    \/ SubmitCreate(1)
    \/ SubmitToken(1)
    \/ \E token_string \in TokenStrings : VerifyApplicant(1, token_string)
    \/ \E token_string \in TokenStrings : ConfirmPrincipal(1, token_string)
    \/ MarkTokenUsed(1)
    \/ PrincipalToken(1)
    \/ AdminRequest(1)
    \/ UpdateStatusCommit(1)
    \/ \E id \in AppIds, email \in Emails : GetApplicationStatus(1, id, email)
    \/ Finish(1)

SpecProgress == Init /\ [][NextProgress]_vars

\* Applications that name their admin in every way are submitted, verified,
\* confirmed and approved, one request at a time.
NextDesignate ==
    \/ \E data \in SubmitData \cup ChoiceData :
          ApplicationsBelow(1) /\ SubmitApplication(1, data)
    \/ SubmitCreate(1)
    \/ SubmitToken(1)
    \/ \E token_string \in TokenStrings : VerifyApplicant(1, token_string)
    \/ \E token_string \in TokenStrings : ConfirmPrincipal(1, token_string)
    \/ MarkTokenUsed(1)
    \/ PrincipalToken(1)
    \/ \E id \in AppIds : AdminApproveApplication(1, id, Admin)
    \/ Provision(1)
    \/ WelcomeEmail(1)
    \/ UpdateStatusCommit(1)
    \/ Finish(1)

SpecDesignate == Init /\ [][NextDesignate]_vars

\* The whole workflow of one application as time passes: the public and the
\* admin requests, one at a time, while the two jobs run beside them.
NextWorkflow ==
    \/ procs[1].op = "idle" /\ Tick
    \/ \E data \in { d \in SubmitData : d.school_name = "Oak" /\ d.city = "Rome" } :
          ApplicationsBelow(1) /\ TokensBelow(MaxDrawn) /\ SubmitApplication(1, data)
    \/ SubmitCreate(1)
    \/ SubmitToken(1)
    \/ \E token_string \in TokenStrings :
          TokensBelow(MaxDrawn) /\ VerifyApplicant(1, token_string)
    \/ \E token_string \in TokenStrings : ConfirmPrincipal(1, token_string)
    \/ MarkTokenUsed(1)
    \/ PrincipalToken(1)
    \/ \E email \in Emails :
          TokensBelow(MaxDrawn) /\ ResendVerification(1, 1, email, "connected")
    \/ ResendDelete(1)
    \/ ResendToken(1)
    \/ UpdateStatusCommit(1)
    \/ Finish(1)
    \/ AdminRequest(1)
    \/ JobRun(2)
    \/ UpdateStatusCommit(2)
    \/ Finish(2)

SpecWorkflow == Init /\ [][NextWorkflow]_vars

(***************************************************************************)
(* Properties.                                                             *)
(***************************************************************************)
\* A direct call of update_status that has returned or raised, on an
\* application that exists.
Returned(p) ==
    /\ procs[p].op = "update_status"
    /\ procs[p].pc = "done"
    /\ procs[p].seen # ""

\* C1 (as stated): a call with a pair (from, to) that is no edge of
\* VALID_STATUS_TRANSITIONS raises InvalidStatusTransitionError, a call with
\* an edge succeeds.
C1_NonEdgesRaise ==
    \A p \in Procs : Returned(p) =>
        (procs[p].target \notin VALID_STATUS_TRANSITIONS[procs[p].seen]
            <=> procs[p].res = "InvalidStatusTransitionError")

\* C1 (amended): for from # to, the call raises InvalidStatusTransitionError
\* and leaves the status at `from` exactly when (from, to) is no edge, and
\* otherwise succeeds and stores `to`; a call with to = from on a status that
\* is not terminal succeeds and leaves the status as it is.
C1_TransitionLegality ==
    \A p \in Procs : Returned(p) =>
        LET from == procs[p].seen
            to == procs[p].target
            stored == apps[procs[p].app].status
        IN /\ (from # to /\ to \notin VALID_STATUS_TRANSITIONS[from]) =>
                (procs[p].res = "InvalidStatusTransitionError" /\ stored = from)
           /\ to \in VALID_STATUS_TRANSITIONS[from] =>
                (procs[p].res = "ok" /\ stored = to)
           /\ (from = to /\ from \notin TerminalStatuses) =>
                (procs[p].res = "ok" /\ stored = from)

\* C1, its case: a call with a pair that is no edge has raised, and a call
\* with the same status twice has returned.
C1_Witness ==
    \E p \in Procs :
        /\ Returned(p)
        /\ procs[p].seen = UNDER_REVIEW
        /\ procs[p].target = PENDING_REVIEW
        /\ procs[p].res = "InvalidStatusTransitionError"

\* C2: on an application whose status is APPROVED, REJECTED or EXPIRED no
\* call of update_status succeeds, whatever its target, that status included.
C2_TerminalImmutability ==
    \A p \in Procs :
        (Returned(p) /\ procs[p].seen \in TerminalStatuses) =>
            procs[p].res = "InvalidStatusTransitionError"

\* C3: a status that has become terminal is never overwritten by another
\* writer.
C3_TerminalNeverOverwritten ==
    [][ \A a \in DOMAIN apps :
            apps[a].status \in TerminalStatuses => apps'[a].status = apps[a].status ]_vars

\* C4: a call of verify_applicant (confirm_principal) with a token string
\* that an earlier call of the same handler has consumed with success fails
\* with TokenAlreadyUsedError.
C4_ConsumedTokenRefused ==
    [][ \A p \in Procs :
            ( /\ procs[p].op = "idle"
              /\ procs'[p].op \in { "verify_applicant", "confirm_principal" }
              /\ << procs'[p].op, procs'[p].tok >> \in consumed )
            => procs'[p].res = "TokenAlreadyUsedError" ]_vars

\* C5: of two calls of verify_applicant (confirm_principal) with the same
\* token string at most one carries out the transition and returns a
\* response.
C5_OneConsumer ==
    \A p, q \in Procs :
        ( /\ p # q
          /\ procs[p].op \in { "verify_applicant", "confirm_principal" }
          /\ procs[q].op = procs[p].op
          /\ procs[q].tok = procs[p].tok
          /\ procs[p].pc = "done" /\ procs[p].res = "ok" )
        => ~ (procs[q].pc = "done" /\ procs[q].res = "ok")

\* C6: a submission either creates its application or, meeting an application
\* with the same (school_name, city) that is not terminal, fails with
\* DuplicateApplicationError.
C6_DuplicateRefused ==
    \A p \in Procs :
        (procs[p].op = "submit_application" /\ procs[p].pc = "done") =>
            procs[p].res \in { "ok", "DuplicateApplicationError" }

\* C7: at most one application that is not terminal exists per (effective
\* applicant e-mail, school_name).
C7_OnePendingPerApplicant ==
    \A i, j \in DOMAIN apps :
        ( /\ i # j
          /\ apps[i].status \notin TerminalStatuses
          /\ apps[j].status \notin TerminalStatuses )
        => ~ ( /\ get_effective_applicant_email_from_model(apps[i])
                    = get_effective_applicant_email_from_model(apps[j])
               /\ apps[i].school_name = apps[j].school_name )

\* A threshold behind every timestamp: what a query selects at whatever
\* reading of the clock.
Whenever == MaxTime + 1

\* The applications the two queries of the reminder job select.
SelectedForReminder ==
    get_applications_needing_reminder(apps, Whenever, AWAITING_APPLICANT_VERIFICATION)
    \cup { r.application_id :
             r \in get_principal_tokens_needing_reminder(apps, tokens, Whenever, NULL) }

\* The applications the two queries of the expiry job select.
SelectedForExpiry ==
    get_expired_unverified(apps, Whenever)
    \cup { r.application_id : r \in get_principal_tokens_to_expire(apps, tokens, Whenever) }

C9_OneReminderUnderOverlap ==
    \A a \in DOMAIN apps : mail[a]["verification_reminder"] < 2

\* C10: runs of expire_unverified_applications in succession expire an
\* application once: an expired application has had exactly one expiry
\* notice and matches neither query of a later run, and no other application
\* has had a notice.
C10_ExpiryIdempotency ==
    \A a \in DOMAIN apps :
        /\ mail[a]["application_expired"] <= 1
        /\ apps[a].status = EXPIRED <=> mail[a]["application_expired"] = 1
        /\ apps[a].status = EXPIRED => a \notin SelectedForExpiry

\* C10, its case: a run has expired an application, and the run after it
\* has found nothing to process.
C10_Witness ==
    \E a \in DOMAIN apps :
        /\ apps[a].status = EXPIRED
        /\ mail[a]["application_expired"] = 1
        /\ procs[1].op = "expire_unverified_applications"
        /\ procs[1].pc = "done"
        /\ procs[1].results = << >>
        /\ apps[a].submitted_at < procs[1].at - EXPIRY_THRESHOLD_HOURS

\* The unused PRINCIPAL_CONFIRMATION tokens of application a.
UnusedPrincipalTokens(a) ==
    { r \in tokens :
        /\ r.application_id = a
        /\ r.token_type = PRINCIPAL_CONFIRMATION
        /\ r.used_at = NULL }

\* The applications a run of the expiry job has recorded as expired.
ExpiredBy(p) ==
    { procs[p].results[i].app :
        i \in { j \in DOMAIN procs[p].results : procs[p].results[j].status = "expired" } }

\* The table with every submitted_at replaced by t.
SubmittedAt(t) == [ i \in DOMAIN apps |-> [ apps[i] EXCEPT !.submitted_at = t ] ]

\* C11: for an application awaiting its principal, the expiry job decides by
\* the creation time of the unused PRINCIPAL_CONFIRMATION token and not by
\* submitted_at.  When a run is over, an application it has expired on the
\* principal path has an unused token created more than 72 hours before the
\* run, an application that still awaits its principal has no such token
\* (however long ago it was submitted), and the selection of the second query
\* is the same whatever the submitted_at of the applications.
C11_TokenAgeGoverns ==
    /\ \A p \in Procs :
          (procs[p].op = "expire_unverified_applications" /\ procs[p].pc = "done") =>
             \A a \in DOMAIN apps :
                (apps[a].applicant_verified_at # NULL /\ apps[a].principal_confirmed_at = NULL) =>
                   /\ a \in ExpiredBy(p) =>
                         \E r \in UnusedPrincipalTokens(a) :
                            r.created_at < procs[p].at - EXPIRY_THRESHOLD_HOURS
                   /\ apps[a].status = AWAITING_PRINCIPAL_CONFIRMATION =>
                         \A r \in UnusedPrincipalTokens(a) :
                            r.created_at >= procs[p].at - EXPIRY_THRESHOLD_HOURS
    /\ \A t \in { 0, now } :
          get_principal_tokens_to_expire(SubmittedAt(t), tokens, now - EXPIRY_THRESHOLD_HOURS)
             = get_principal_tokens_to_expire(apps, tokens, now - EXPIRY_THRESHOLD_HOURS)

\* C11, its case: a run is over that left alone an application submitted more
\* than 72 hours before it, whose principal's token is younger than 72 hours.
C11_Witness ==
    \E a \in DOMAIN apps :
        /\ procs[1].op = "expire_unverified_applications"
        /\ procs[1].pc = "done"
        /\ apps[a].status = AWAITING_PRINCIPAL_CONFIRMATION
        /\ apps[a].submitted_at < procs[1].at - EXPIRY_THRESHOLD_HOURS
        /\ \E r \in UnusedPrincipalTokens(a) :
              r.created_at >= procs[1].at - EXPIRY_THRESHOLD_HOURS

\* C11, its other case: a run has expired an application whose principal's
\* token was created more than 72 hours before it.
C11_ExpiredByTokenAge ==
    \E a \in DOMAIN apps :
        /\ procs[1].op = "expire_unverified_applications"
        /\ procs[1].pc = "done"
        /\ a \in ExpiredBy(1)
        /\ apps[a].applicant_verified_at # NULL
        /\ \E r \in UnusedPrincipalTokens(a) :
              r.created_at < procs[1].at - EXPIRY_THRESHOLD_HOURS

\* A call of handler op that has returned its response, for application a.
Succeeded(p, op, a) ==
    /\ procs[p].op = op
    /\ procs[p].pc = "done"
    /\ procs[p].res = "ok"
    /\ procs[p].app = a

\* C12: an application submitted with applicant_is_principal never awaits a
\* principal's confirmation and never has a PRINCIPAL_CONFIRMATION token; a
\* successful verify_applicant leaves it in PENDING_REVIEW, having found it in
\* AWAITING_APPLICANT_VERIFICATION, with principal_confirmed_at equal to
\* applicant_verified_at, both set.
C12_PrincipalVerifiesDirectly ==
    \A a \in DOMAIN apps :
        apps[a].applicant_is_principal =>
            /\ apps[a].status # AWAITING_PRINCIPAL_CONFIRMATION
            /\ ~ \E r \in tokens :
                    r.application_id = a /\ r.token_type = PRINCIPAL_CONFIRMATION
            /\ mail[a]["principal_confirmation"] = 0
            /\ apps[a].principal_confirmed_at = apps[a].applicant_verified_at
            /\ \A p \in Procs :
                  Succeeded(p, "verify_applicant", a) =>
                     /\ procs[p].seen = AWAITING_APPLICANT_VERIFICATION
                     /\ apps[a].status = PENDING_REVIEW
                     /\ apps[a].applicant_verified_at = procs[p].at
                     /\ apps[a].principal_confirmed_at = procs[p].at

\* C12, its case: verify_applicant has succeeded, a day after the submission,
\* for an application whose applicant is the principal.
C12_Witness ==
    \E a \in DOMAIN apps, p \in Procs :
        /\ apps[a].applicant_is_principal
        /\ Succeeded(p, "verify_applicant", a)
        /\ apps[a].status = PENDING_REVIEW
        /\ apps[a].applicant_verified_at > apps[a].submitted_at

\* The PRINCIPAL_CONFIRMATION rows of application a that an e-mail carries
\* the token string of.
MailedPrincipalTokens(a) ==
    { r \in tokens :
        /\ r.application_id = a
        /\ r.token_type = PRINCIPAL_CONFIRMATION
        /\ \E l \in links :
              l.app = a /\ l.type = PRINCIPAL_CONFIRMATION /\ hash_token(l.token) = r.token }

\* C13: for an application whose applicant is not the principal, a successful
\* verify_applicant found it in AWAITING_APPLICANT_VERIFICATION and leaves it
\* in AWAITING_PRINCIPAL_CONFIRMATION with one new, unused
\* PRINCIPAL_CONFIRMATION token, mailed to the principal; a successful
\* confirm_principal with that token found it in
\* AWAITING_PRINCIPAL_CONFIRMATION and leaves it in PENDING_REVIEW with
\* principal_confirmed_at set and the token used; and confirm_principal,
\* once the token and the status have passed its checks, does not fail.
C13_PrincipalConfirmationPath ==
    \A a \in DOMAIN apps : ~ apps[a].applicant_is_principal =>
        \A p \in Procs :
            /\ Succeeded(p, "verify_applicant", a) =>
                  /\ procs[p].seen = AWAITING_APPLICANT_VERIFICATION
                  /\ apps[a].status = AWAITING_PRINCIPAL_CONFIRMATION
                  /\ apps[a].applicant_verified_at = procs[p].at
                  /\ apps[a].principal_confirmed_at = NULL
                  /\ Cardinality(MailedPrincipalTokens(a)) = 1
                  /\ \A r \in MailedPrincipalTokens(a) :
                        /\ r.used_at = NULL
                        /\ r.created_at = now
                        /\ r.expires_at = now + TOKEN_EXPIRY_HOURS
            /\ Succeeded(p, "confirm_principal", a) =>
                  /\ procs[p].seen = AWAITING_PRINCIPAL_CONFIRMATION
                  /\ apps[a].status = PENDING_REVIEW
                  /\ apps[a].principal_confirmed_at = procs[p].at
                  /\ apps[a].principal_confirmed_at # NULL
                  /\ \E r \in MailedPrincipalTokens(a) :
                        r.token = hash_token(procs[p].tok) /\ r.used_at = procs[p].at
            /\ (procs[p].op = "confirm_principal" /\ procs[p].pc = "done"
                    /\ procs[p].app = a) =>
                  procs[p].res \in { "ok", "InvalidApplicationStateError" }

\* C13, its case: confirm_principal has succeeded with the token that
\* verify_applicant created.
C13_Witness ==
    \E a \in DOMAIN apps, p \in Procs :
        /\ ~ apps[a].applicant_is_principal
        /\ Succeeded(p, "confirm_principal", a)
        /\ apps[a].status = PENDING_REVIEW
        /\ \E r \in MailedPrincipalTokens(a) :
              /\ r.token = hash_token(procs[p].tok)
              /\ r.created_at = apps[a].applicant_verified_at
              /\ r.used_at > r.created_at

\* A call of admin_approve_application arrives in slot p, for an application
\* whose designated admin has an account already.
ApproveWithExistingAccount(p) ==
    /\ procs[p].op = "idle"
    /\ procs'[p].op = "admin_approve_application"
    /\ procs'[p].app \in DOMAIN apps
    /\ \E u \in users : u.email = designated_admin_email(apps[procs'[p].app])

\* The call is refused with SchoolProvisioningError and has changed neither
\* the application's status nor the schools nor the users.
RefusedWithoutProvisioning(p) ==
    /\ procs'[p].pc = "done"
    /\ procs'[p].res = "SchoolProvisioningError"
    /\ apps'[procs'[p].app].status = apps[procs'[p].app].status
    /\ schools' = schools
    /\ users' = users

\* C14 (as stated): if an account with the designated admin's e-mail exists,
\* admin_approve_application fails with SchoolProvisioningError, the status
\* is unchanged and no school and no user is created.
C14_ExistingAccountRefused ==
    [][ \A p \in Procs :
            ApproveWithExistingAccount(p) => RefusedWithoutProvisioning(p) ]_vars

\* C14 (amended): the same, for an application in one of the statuses a
\* decision can be taken in (PENDING_REVIEW, UNDER_REVIEW,
\* MORE_INFO_REQUESTED).
C14_ExistingAccountRefusedWhenDecidable ==
    [][ \A p \in Procs :
            ( /\ ApproveWithExistingAccount(p)
              /\ apps[procs'[p].app].status \in DECIDABLE_STATUSES )
            => RefusedWithoutProvisioning(p) ]_vars

\* C14, its case: the approval of a second application of a principal who
\* administers an approved school has been refused.
C14_Witness ==
    \E p \in Procs :
        /\ procs[p].op = "admin_approve_application"
        /\ procs[p].pc = "done"
        /\ procs[p].res = "SchoolProvisioningError"
        /\ procs[p].seen = PENDING_REVIEW
        /\ apps[procs[p].app].status = PENDING_REVIEW
        /\ procs[p].app \notin schools
        /\ \E u \in users :
              /\ u.email = designated_admin_email(apps[procs[p].app])
              /\ u.school_id # procs[p].app

\* C15: school, admin user and the status APPROVED are visible together or
\* not at all: in every state an application has a school record iff it has
\* an admin user iff its status is APPROVED.
C15_ProvisioningAtomic ==
    \A a \in DOMAIN apps :
        /\ a \in schools <=> apps[a].status = APPROVED
        /\ a \in schools <=> \E u \in users : u.school_id = a

\* The resends of application a that have succeeded at clock reading t: the
\* e-mails resend_verification has sent.  Two readings are more than the
\* window of the counter apart.
ResentAt(a, t) ==
    { l \in links : l.app = a /\ l.by = "resend_verification" /\ l.at = t }

\* What the TTL command of Redis can answer for the counter's key: no key, no
\* expiry, or the seconds left.
TTLs == { -2, -1, 0, 59, 60, 61, RESEND_RATE_LIMIT_WINDOW_SECONDS }

\* The outcomes of the checks of resend_verification that precede the rate
\* limit.
EarlierRefusals ==
    { "ApplicationNotFoundError", "InvalidEmailError", "AlreadyVerifiedError",
      "ApplicationServiceError: SERVICE_UNAVAILABLE", "ConnectionError" }

\* C16: within the window, calls of resend_verification one after the other
\* succeed at most 3 times for an application; once 3 have succeeded, a
\* further call that passes the earlier checks fails with
\* RateLimitExceededError, whose retry_after_seconds is positive, and that
\* call deletes no token, creates no token and sends no e-mail.
C16_ThreeResendsPerWindow ==
    [][ /\ \A a \in AppIds : Cardinality(ResentAt(a, now)') <= RESEND_RATE_LIMIT_MAX_REQUESTS
        /\ \A p \in Procs :
              ( /\ procs[p].op = "idle"
                /\ procs'[p].op = "resend_verification"
                /\ Cardinality(ResentAt(procs'[p].app, now)) = RESEND_RATE_LIMIT_MAX_REQUESTS
                /\ procs'[p].res \notin EarlierRefusals )
              => /\ procs'[p].pc = "done"
                 /\ procs'[p].res = "RateLimitExceededError"
                 /\ tokens' = tokens
                 /\ nextRaw' = nextRaw
                 /\ links' = links
                 /\ mail' = mail
        /\ \A ttl \in TTLs : retry_after(ttl) > 0 ]_vars

\* C16, its case: the fourth call within the window has been refused.
C16_Witness ==
    \E p \in Procs :
        /\ procs[p].op = "resend_verification"
        /\ procs[p].pc = "done"
        /\ procs[p].res = "RateLimitExceededError"
        /\ Cardinality(ResentAt(procs[p].app, now)) = RESEND_RATE_LIMIT_MAX_REQUESTS

\* C17: a call of resend_verification that passes the existence, e-mail and
\* status checks and meets an unavailable rate-limit backend fails with the
\* SERVICE_UNAVAILABLE error, and with no other.
C17_UnavailableIsServiceUnavailable ==
    \A p \in Procs :
        (procs[p].op = "resend_verification" /\ procs[p].pc = "done") =>
            procs[p].res # "ConnectionError"

\* The token type a resend works on, from the status it has loaded.
ResendType(p) ==
    IF procs[p].seen = AWAITING_APPLICANT_VERIFICATION
    THEN APPLICANT_VERIFICATION ELSE PRINCIPAL_CONFIRMATION

\* The handler that validates tokens of a type.
ValidatedAs(token_type, rows, token_string, t) ==
    validate_token(rows, token_string, token_type, t)

\* C18: when a call of resend_verification succeeds, every token string of
\* the type that was mailed for the application before is rejected by the
\* validation of verify_applicant / confirm_principal, the token just issued
\* is the only row of the type for the application, and it is accepted from
\* now until 72 hours have passed, and no longer.
C18_ResendSupersedes ==
    [][ \A p \in Procs :
            (procs[p].pc = "resend_token" /\ procs'[p].pc = "done") =>
               LET a == procs[p].app
                   type == ResendType(p)
                   new == procs'[p].tok
               IN /\ \A l \in links :
                        (l.app = a /\ l.type = type) =>
                           ValidatedAs(type, tokens', l.token, now) # "ok"
                  /\ \A r \in tokens' :
                        (r.application_id = a /\ r.token_type = type) =>
                           r.token = hash_token(new)
                  /\ ValidatedAs(type, tokens', new, now) = "ok"
                  /\ ValidatedAs(type, tokens', new, now + TOKEN_EXPIRY_HOURS) = "ok"
                  /\ ValidatedAs(type, tokens', new, now + TOKEN_EXPIRY_HOURS + 1)
                        = "TokenExpiredError" ]_vars

\* C18, its case: a resend has succeeded for an application that had a token
\* of the type before, which verify_applicant now refuses.
C18_Witness ==
    \E p \in Procs :
        /\ procs[p].op = "resend_verification"
        /\ procs[p].pc = "done"
        /\ procs[p].res = "ok"
        /\ \E l \in links :
              /\ l.app = procs[p].app
              /\ l.type = ResendType(p)
              /\ l.token # procs[p].tok
              /\ ValidatedAs(l.type, tokens, l.token, now) = "InvalidTokenError"
        /\ ValidatedAs(ResendType(p), tokens, procs[p].tok, now) = "ok"

\* The principal's link s can be confirmed at time t: its row is a principal's
\* token, unused and not expired, of an application that awaits the
\* principal's confirmation.
Confirmable(rows, table, s, t) ==
    \E r \in rows :
        /\ r.token = hash_token(s)
        /\ r.token_type = PRINCIPAL_CONFIRMATION
        /\ r.used_at = NULL
        /\ t <= r.expires_at
        /\ table[r.application_id].status = AWAITING_PRINCIPAL_CONFIRMATION

\* Slot p holds the summary that get_principal_view has returned.
Viewed(p) ==
    /\ procs[p].op = "get_principal_view"
    /\ procs[p].pc = "done"
    /\ procs[p].res = "ok"

\* C19: get_principal_view validates the principal's token and requires the
\* application to await the principal's confirmation, and consumes nothing.
\* A call changes neither the tokens nor the applications; it returns the
\* summary exactly when the link can be confirmed; once the summary is
\* returned the link can still be confirmed, however many views came before;
\* and a confirm_principal called with a link that can be confirmed passes
\* its checks and then succeeds.
C19_ViewDoesNotConsume ==
    [][\A p \in Procs :
          /\ (procs[p].op = "idle" /\ procs'[p].op = "get_principal_view")
                => /\ tokens' = tokens
                   /\ apps' = apps
                   /\ procs'[p].res = "ok"
                         <=> Confirmable(tokens, apps, procs'[p].tok, now)
          /\ Viewed(p) => Confirmable(tokens', apps', procs[p].tok, now')
          /\ ( /\ procs[p].op = "idle"
               /\ procs'[p].op = "confirm_principal"
               /\ Confirmable(tokens, apps, procs'[p].tok, now) )
                => procs'[p].pc = "mark_token"
          /\ ( /\ procs[p].op = "confirm_principal"
               /\ procs[p].pc \notin { "idle", "done" }
               /\ procs'[p].pc = "done" )
                => /\ procs'[p].res = "ok"
                   /\ apps'[procs[p].app].status = PENDING_REVIEW
      ]_vars

\* The summary has been returned for a link that was mailed, after a view
\* of an earlier hour: time has passed since the token was created.
C19_Witness ==
    \E p \in Procs :
        /\ Viewed(p)
        /\ \E r \in tokens :
              /\ r.token = hash_token(procs[p].tok)
              /\ r.used_at = NULL
              /\ r.created_at < now
        /\ mail[procs[p].app]["principal_confirmation"] > 0

\* The handlers that validate a token, and the type each of them expects.
TokenHandlers == { "verify_applicant", "get_principal_view", "confirm_principal" }

ExpectedType(op) ==
    IF op = "verify_applicant" THEN APPLICANT_VERIFICATION ELSE PRINCIPAL_CONFIRMATION

\* What a handler answers when the validation of the token has failed.
ValidationErrors ==
    { "InvalidTokenError", "InvalidTokenError: Invalid token type for this operation.",
      "TokenAlreadyUsedError", "TokenExpiredError" }

\* Slot p takes a call of a handler that validates a token.
Validates(p) ==
    /\ procs[p].op = "idle"
    /\ procs'[p].op \in TokenHandlers

\* C20: token validation reports the first failure that applies, in the order
\* not found, wrong type, already used, expired (InvalidTokenError,
\* InvalidTokenError, TokenAlreadyUsedError, TokenExpiredError); it accepts
\* the token exactly when the row exists, has the expected type, has used_at
\* unset and now <= expires_at; a token of one type is never accepted by the
\* handler of the other type; and a failed validation changes neither the
\* tokens nor the applications.
C20_ValidationOrder ==
    [][\A p \in Procs :
          Validates(p) =>
            LET s == procs'[p].tok
                res == procs'[p].res
                expected_type == ExpectedType(procs'[p].op)
                rows == { r \in tokens : r.token = hash_token(s) }
            IN /\ rows = {} => res = "InvalidTokenError"
               /\ \A r \in rows :
                    /\ r.token_type # expected_type
                          => res = "InvalidTokenError: Invalid token type for this operation."
                    /\ (r.token_type = expected_type /\ r.used_at # NULL)
                          => res = "TokenAlreadyUsedError"
                    /\ (r.token_type = expected_type /\ r.used_at = NULL
                            /\ now > r.expires_at)
                          => res = "TokenExpiredError"
               /\ res \notin ValidationErrors
                    <=> \E r \in rows : /\ r.token_type = expected_type
                                        /\ r.used_at = NULL
                                        /\ now <= r.expires_at
               /\ res \in ValidationErrors
                    => /\ tokens' = tokens
                       /\ apps' = apps
                       /\ procs'[p].pc = "done"
      ]_vars

\* A token that is both used and expired was presented to the handler of its
\* type, and the answer names the use.
C20_Witness ==
    \E p \in Procs : \E r \in tokens :
        /\ procs[p].pc = "done"
        /\ procs[p].op \in TokenHandlers
        /\ r.token = hash_token(procs[p].tok)
        /\ r.token_type = ExpectedType(procs[p].op)
        /\ r.used_at # NULL
        /\ now > r.expires_at
        /\ procs[p].res = "TokenAlreadyUsedError"

\* The admin's decisions.
AdminDecisions ==
    { "admin_approve_application", "admin_reject_application", "admin_request_more_info" }

\* Slot p ends a call of op on an application that exists, in this step.
Ends(p, op) ==
    /\ procs[p].op = op
    /\ procs[p].pc # "done"
    /\ procs'[p].op = op
    /\ procs'[p].pc = "done"
    /\ procs'[p].res # "ApplicationNotFoundError"

\* C21: admin_start_review succeeds exactly when the application it has
\* loaded is in PENDING_REVIEW and fails with CannotReviewApplicationError
\* otherwise; each decision (approve, reject, request more information)
\* succeeds when the application is in PENDING_REVIEW, UNDER_REVIEW or
\* MORE_INFO_REQUESTED (for an approval: and the designated admin has no
\* account yet), and in every other status fails with
\* CannotDecideApplicationError and leaves the application unchanged.
C21_AdminSourceStatuses ==
    [][\A p \in Procs :
          /\ Ends(p, "admin_start_review")
                => /\ procs'[p].res = "ok" <=> procs'[p].seen = PENDING_REVIEW
                   /\ procs'[p].res # "ok"
                         => procs'[p].res = "CannotReviewApplicationError"
          /\ \A op \in AdminDecisions :
                Ends(p, op)
                  => /\ ( /\ procs'[p].seen \in
                                { PENDING_REVIEW, UNDER_REVIEW, MORE_INFO_REQUESTED }
                          /\ procs'[p].res # "SchoolProvisioningError" )
                          => procs'[p].res = "ok"
                     /\ procs'[p].seen \notin
                                { PENDING_REVIEW, UNDER_REVIEW, MORE_INFO_REQUESTED }
                          => /\ procs'[p].res = "CannotDecideApplicationError"
                             /\ apps' = apps
      ]_vars

\* The claimed address is the effective applicant's: the principal's when
\* the applicant is the principal, the applicant's otherwise, whatever the
\* case of the letters.
ClaimsApplicant(application, email) ==
    LOWER(email) = LOWER(IF application.applicant_is_principal
                         THEN application.principal_email
                         ELSE application.applicant_email)

\* C22: get_application_status and resend_verification act on an application
\* only when the claimed e-mail equals the application's effective applicant
\* e-mail, compared case-insensitively; for any other claimed e-mail they
\* fail with InvalidEmailError, return nothing of the application and change
\* no state; with the right e-mail neither fails with InvalidEmailError, and
\* the status is returned.
C22_EmailGate ==
    [][\A p \in Procs : \A id \in DOMAIN apps : \A email \in Emails :
          /\ GetApplicationStatus(p, id, email)
                => IF ClaimsApplicant(apps[id], email)
                   THEN /\ procs'[p].res = "ok"
                        /\ procs'[p].seen = apps[id].status
                   ELSE /\ procs'[p].res = "InvalidEmailError"
                        /\ procs'[p].seen = ""
                        /\ procs'[p].pc = "done"
                        /\ << now, apps, tokens, schools, users, redis, nextRaw,
                              mail, links >>' =
                           << now, apps, tokens, schools, users, redis, nextRaw,
                              mail, links >>
          /\ \A redis_client \in RedisClients :
                ResendVerification(p, id, email, redis_client)
                  => IF ClaimsApplicant(apps[id], email)
                     THEN procs'[p].res # "InvalidEmailError"
                     ELSE /\ procs'[p].res = "InvalidEmailError"
                          /\ procs'[p].seen = ""
                          /\ procs'[p].pc = "done"
                          /\ << now, apps, tokens, schools, users, redis, nextRaw,
                                mail, links >>' =
                             << now, apps, tokens, schools, users, redis, nextRaw,
                                mail, links >>
      ]_vars

\* The principal's address in capitals (P@X.org against p@x.org) was served
\* the status of the principal's own application, after a resend for it.
C22_Witness ==
    \E p \in Procs :
        /\ procs[p].pc = "done"
        /\ procs[p].op = "get_application_status"
        /\ procs[p].res = "ok"
        /\ apps[procs[p].app].applicant_is_principal
        /\ apps[procs[p].app].principal_email = PrincipalEmail
        /\ mail[procs[p].app]["applicant_verification"] > 1

\* Application a holds a principal's token that is unused and was created
\* less than EXPIRY_THRESHOLD_HOURS before t.
HoldsFreshPrincipalToken(rows, a, t) ==
    \E r \in rows :
        /\ r.application_id = a
        /\ r.token_type = PRINCIPAL_CONFIRMATION
        /\ r.used_at = NULL
        /\ t - r.created_at < EXPIRY_THRESHOLD_HOURS

\* C23: however expire_unverified_applications interleaves with
\* verify_applicant and resend_verification, no application is moved to
\* EXPIRED while it awaits the principal's confirmation and holds an unused
\* principal's token created less than 72 hours ago.
C23_PrincipalWindow ==
    [][\A a \in DOMAIN apps :
          ( /\ apps[a].status = AWAITING_PRINCIPAL_CONFIRMATION
            /\ apps'[a].status = EXPIRED )
            => ~ HoldsFreshPrincipalToken(tokens, a, now)
      ]_vars

\* The runs of expire_unverified_applications in flight that have recorded
\* application a as expired by them.
ExpiredByRuns(a) ==
    { p \in Procs :
        /\ procs[p].op = "expire_unverified_applications"
        /\ \E i \in DOMAIN procs[p].results :
              procs[p].results[i] = Result(a, "expired") }

\* C24: when two executions of expire_unverified_applications overlap, an
\* application is moved to EXPIRED by at most one of them and at most one
\* expiry notice is sent for it.
C24_OneExpiryUnderOverlap ==
    \A a \in DOMAIN apps :
        /\ Cardinality(ExpiredByRuns(a)) <= 1
        /\ mail[a]["application_expired"] <= 1

\* C25: under concurrent calls of resend_verification for one application the
\* check of the counter and its increment act as one step: in no
\* interleaving do more than 3 calls pass the rate limit within a window
\* (the counter counts the calls that passed, and no more than 3 e-mails
\* are resent).
C25_AtomicRateLimit ==
    \A a \in AppIds :
        /\ redis[a] <= RESEND_RATE_LIMIT_MAX_REQUESTS
        /\ Cardinality(ResentAt(a, now)) <= RESEND_RATE_LIMIT_MAX_REQUESTS

\* C26: when the delivery of the welcome e-mail fails after a successful
\* approval (the sender returns False), the application stays APPROVED with
\* its school and its admin user in place, and an internal note that records
\* the failure is appended to the application.
C26_WelcomeFailureNoted ==
    [][\A p \in Procs :
          SendApplicationApproved(p, "False")
            => LET a == procs[p].app IN
               /\ apps'[a].status = APPROVED
               /\ a \in schools'
               /\ \E u \in users' : u.school_id = a
               /\ Len(apps'[a].internal_notes) = Len(apps[a].internal_notes) + 1
      ]_vars

\* The workflow operations that call the state machine.
WorkflowOperations ==
    { "verify_applicant", "confirm_principal", "admin_start_review" } \cup AdminDecisions

StatusIs(s) == \E a \in DOMAIN apps : apps[a].status = s

\* C28: an application in MORE_INFO_REQUESTED can go back to UNDER_REVIEW and
\* then be APPROVED: when the callers follow the path, the application passes
\* through PENDING_REVIEW, UNDER_REVIEW, MORE_INFO_REQUESTED, UNDER_REVIEW
\* again and APPROVED, in this order.
C28_MoreInfoPath ==
    <>( /\ StatusIs(PENDING_REVIEW)
        /\ <>( /\ StatusIs(UNDER_REVIEW)
               /\ <>( /\ StatusIs(MORE_INFO_REQUESTED)
                      /\ <>( /\ StatusIs(UNDER_REVIEW)
                             /\ <>StatusIs(APPROVED) ) ) ) )

\* The part of the path that the operations do realise.
C28_UpToMoreInfo ==
    <>( /\ StatusIs(PENDING_REVIEW)
        /\ <>( StatusIs(UNDER_REVIEW) /\ <>StatusIs(MORE_INFO_REQUESTED) ) )

\* No request made of an application in MORE_INFO_REQUESTED takes it back to
\* UNDER_REVIEW or on to APPROVED.
C28_NoWayBack ==
    [][\A a \in DOMAIN apps :
          apps[a].status = MORE_INFO_REQUESTED
            => apps'[a].status \in { MORE_INFO_REQUESTED, REJECTED, EXPIRED }
      ]_vars

\* Application a has been left awaiting the applicant's verification for
\* more than 72 hours, the startup being over.
Overdue(a) ==
    /\ scheduler.lifespan = "started"
    /\ a \in DOMAIN apps
    /\ apps[a].status = AWAITING_APPLICANT_VERIFICATION
    /\ apps[a].submitted_at < now - EXPIRY_THRESHOLD_HOURS

\* C29: after the startup (register_school_application_jobs, then
\* start_scheduler) both jobs are scheduled on the running scheduler, so
\* that, with no job triggered by hand, an application left in
\* AWAITING_APPLICANT_VERIFICATION for more than 72 hours is eventually
\* moved to EXPIRED.
C29_JobsScheduled ==
    /\ [](scheduler.lifespan = "started"
            => /\ scheduler.instance = "running"
               /\ scheduler.jobs = { JOB_ID_SEND_REMINDERS, JOB_ID_EXPIRE_APPLICATIONS })
    /\ \A a \in AppIds : Overdue(a) ~> (a \in DOMAIN apps /\ apps[a].status = EXPIRED)

\* The second half of C29 alone.
C29_EventuallyExpired ==
    \A a \in AppIds : Overdue(a) ~> (a \in DOMAIN apps /\ apps[a].status = EXPIRED)

\* The running scheduler holds no job at all.
C29_NothingScheduled ==
    scheduler.jobs = {}

\* A turn of the applicant loop of send_verification_reminders by p, for an
\* application that has exactly one still-valid token.
RemindsWithToken(p) ==
    /\ procs[p].op = "send_verification_reminders"
    /\ procs[p].pc = "remind"
    /\ procs[p].phase = "applicant"
    /\ procs[p].list # << >>
    /\ procs'[p] # procs[p]
    /\ Cardinality(get_valid_token_for_application(tokens, Head(procs[p].list).app,
                                                   APPLICANT_VERIFICATION, now)) = 1

IsPrefix(s, t) == Len(s) <= Len(t) /\ SubSeq(t, 1, Len(s)) = s

\* C31: internal notes are an append-only ordered log: every
\* add_internal_note leaves all earlier notes present, unmodified and in their
\* order, with the new note last, also when two calls on the same application
\* run concurrently (both notes are present afterwards).
C31_NotesAppendOnly ==
    [][ \A a \in DOMAIN apps :
          /\ IsPrefix(apps[a].internal_notes, apps'[a].internal_notes)
          /\ \A p \in Procs :
                (procs[p].pc = "note_commit" /\ procs[p].app = a /\ procs'[p].pc = "done")
                    => /\ Len(apps'[a].internal_notes) = Len(apps[a].internal_notes) + 1
                       /\ apps'[a].internal_notes[Len(apps'[a].internal_notes)].note
                              = procs[p].note ]_vars

\* The second half of C31 alone: once two calls have returned, the
\* application holds two notes.
C31_BothNotesPresent ==
    \A a \in DOMAIN apps :
        (\A p \in Procs :
            /\ procs[p].op = "admin_add_internal_note"
            /\ procs[p].pc = "done" /\ procs[p].res = "ok" /\ procs[p].app = a)
        => Len(apps[a].internal_notes) >= MaxProcs

\* The unused tokens of one type an application holds.
UnusedTokens(rows, a, token_type) ==
    { r \in rows : r.application_id = a /\ r.token_type = token_type /\ r.used_at = NULL }

\* C32: a failure to send the verification e-mail (the sender returns false,
\* or raises) does not fail submit_application: the application is persisted
\* in AWAITING_APPLICANT_VERIFICATION together with one unused
\* APPLICANT_VERIFICATION token that expires 72 hours later, and a later
\* resend_verification for it is served: a call with the applicant's address
\* that finds the counter below the limit is not refused, and it ends with a
\* new unused token mailed.
C32_EmailFailureNotFatal ==
    /\ \A email_sent \in { "False", "raises" } : submit_result(email_sent) = "ok"
    /\ [][ \A p \in Procs :
             /\ ( /\ procs[p].op = "submit_application"
                  /\ procs[p].pc = "token"
                  /\ procs'[p].pc = "done"
                  /\ procs'[p].email_sent = "False" )
                   => LET a == procs[p].app IN
                      /\ procs'[p].res = "ok"
                      /\ a \in DOMAIN apps'
                      /\ apps'[a].status = AWAITING_APPLICANT_VERIFICATION
                      /\ Cardinality(UnusedTokens(tokens', a, APPLICANT_VERIFICATION)) = 1
                      /\ \A r \in UnusedTokens(tokens', a, APPLICANT_VERIFICATION) :
                            r.expires_at = now + TOKEN_EXPIRY_HOURS
             /\ ( /\ procs[p].op = "idle"
                  /\ procs'[p].op = "resend_verification"
                  /\ procs'[p].app \in DOMAIN apps
                  /\ apps[procs'[p].app].status = AWAITING_APPLICANT_VERIFICATION
                  /\ LOWER(procs'[p].email)
                       = LOWER(get_effective_applicant_email_from_model(
                                   apps[procs'[p].app]))
                  /\ procs'[p].res
                        \notin { "ConnectionError",
                                 "ApplicationServiceError: SERVICE_UNAVAILABLE" }
                  /\ ~ rate_limit_reached(redis[procs'[p].app]) )
                   => procs'[p].pc = "delete_tokens"
             /\ ( /\ procs[p].pc = "resend_token"
                  /\ procs'[p] # procs[p] )
                   => /\ procs'[p].res = "ok"
                      /\ validate_token(tokens', procs'[p].tok,
                                        IF procs[p].seen = AWAITING_APPLICANT_VERIFICATION
                                        THEN APPLICANT_VERIFICATION
                                        ELSE PRINCIPAL_CONFIRMATION, now) = "ok" ]_vars

\* The verification e-mail of a submission was not sent, the submission has
\* answered, and a resend for the application has mailed a new token.
C32_Witness ==
    /\ procs[1].op = "submit_application"
    /\ procs[1].pc = "done" /\ procs[1].res = "ok" /\ procs[1].email_sent = "False"
    /\ procs[2].op = "resend_verification"
    /\ procs[2].pc = "done" /\ procs[2].res = "ok" /\ procs[2].app = procs[1].app
    /\ apps[procs[1].app].status = AWAITING_APPLICANT_VERIFICATION
    /\ validate_token(tokens, procs[2].tok, APPLICANT_VERIFICATION, now) = "ok"

\* The names and the completion flags of a list of steps.
StepNames(steps) == [ i \in DOMAIN steps |-> steps[i].name ]
Completed(steps, name) == \E i \in DOMAIN steps : steps[i].name = name /\ steps[i].completed

\* C33: get_application_status returns the progress steps in the order
\* Application Submitted, Email Verified, Principal Confirmed (present
\* exactly when applicant_is_principal is false), Under Review, Decision;
\* Application Submitted is always completed, Email Verified iff
\* applicant_verified_at is set, Principal Confirmed iff
\* principal_confirmed_at is set, Under Review iff the status is UNDER_REVIEW,
\* MORE_INFO_REQUESTED, APPROVED or REJECTED, and Decision iff the status is
\* APPROVED or REJECTED.
C33_ProgressSteps ==
    \A p \in Procs :
        (procs[p].op = "get_application_status" /\ procs[p].res = "ok") =>
            LET application == apps[procs[p].app]
                steps == procs[p].steps
            IN /\ StepNames(steps) =
                    IF application.applicant_is_principal
                    THEN << "Application Submitted", "Email Verified", "Under Review",
                            "Decision" >>
                    ELSE << "Application Submitted", "Email Verified",
                            "Principal Confirmed", "Under Review", "Decision" >>
               /\ Completed(steps, "Application Submitted")
               /\ Completed(steps, "Email Verified")
                    <=> application.applicant_verified_at # NULL
               /\ ~ application.applicant_is_principal =>
                    ( Completed(steps, "Principal Confirmed")
                        <=> application.principal_confirmed_at # NULL )
               /\ Completed(steps, "Under Review")
                    <=> application.status \in { UNDER_REVIEW, MORE_INFO_REQUESTED,
                                                 APPROVED, REJECTED }
               /\ Completed(steps, "Decision")
                    <=> application.status \in { APPROVED, REJECTED }

\* The status of a principal's own application that was approved has been
\* returned: four steps, all completed.
C33_Witness ==
    \E p \in Procs :
        /\ procs[p].op = "get_application_status" /\ procs[p].res = "ok"
        /\ apps[procs[p].app].applicant_is_principal
        /\ apps[procs[p].app].status = APPROVED
        /\ Len(procs[p].steps) = 4
        /\ \A i \in DOMAIN procs[p].steps : procs[p].steps[i].completed

\* An approval by p has returned its result.
Approved(p) ==
    /\ procs[p].op = "admin_approve_application"
    /\ procs[p].pc = "done"
    /\ procs[p].res = "ok"

\* C34: on approval the designated admin is the principal when
\* applicant_is_principal is true or admin_choice is PRINCIPAL, and the
\* applicant otherwise; the admin account that was created and the welcome
\* e-mail carry that person's e-mail address and name.
C34_DesignatedAdmin ==
    \A p \in Procs :
        Approved(p) =>
            LET application == apps[procs[p].app]
                person ==
                    IF \/ application.applicant_is_principal
                       \/ application.admin_choice = "PRINCIPAL"
                    THEN << application.principal_email, application.principal_name >>
                    ELSE << application.applicant_email, application.applicant_name >>
            IN /\ procs[p].sent = person
               /\ \A u \in users :
                     u.school_id = procs[p].app
                        => u.email = person[1] /\ u.name = person[2]
               /\ \E u \in users : u.school_id = procs[p].app

\* An application whose applicant, not the principal, left the account to
\* the principal was approved, and the principal has the account.
C34_Witness ==
    \E p \in Procs :
        /\ Approved(p)
        /\ ~ apps[procs[p].app].applicant_is_principal
        /\ apps[procs[p].app].admin_choice = "PRINCIPAL"
        /\ procs[p].sent = << PrincipalEmail, PrincipalName >>
        /\ \E u \in users : u.school_id = procs[p].app /\ u.email = PrincipalEmail

\* The statuses that lie behind the two verifications.
VerifiedStatuses == { PENDING_REVIEW, UNDER_REVIEW, MORE_INFO_REQUESTED, APPROVED, REJECTED }

\* C35: in every reachable state an application whose status is
\* PENDING_REVIEW, UNDER_REVIEW, MORE_INFO_REQUESTED, APPROVED or REJECTED has
\* both applicant_verified_at and principal_confirmed_at set: no sequence of
\* workflow operations and job runs skips the verification.
C35_VerificationNotSkipped ==
    \A a \in DOMAIN apps :
        apps[a].status \in VerifiedStatuses
            => /\ apps[a].applicant_verified_at # NULL
               /\ apps[a].principal_confirmed_at # NULL

\* An application of an applicant who is not the principal has been decided,
\* with both timestamps set.
C35_Witness ==
    \E a \in DOMAIN apps :
        /\ ~ apps[a].applicant_is_principal
        /\ apps[a].status \in { APPROVED, REJECTED }
        /\ apps[a].applicant_verified_at # NULL
        /\ apps[a].principal_confirmed_at # NULL

\* C36: in every reachable state, also after concurrent resend_verification
\* calls and concurrent verify_applicant calls on one application, each
\* application has at most one unused token of each token type.
C36_OneUnusedTokenPerType ==
    \A a \in DOMAIN apps, token_type \in TokenType :
        Cardinality(UnusedTokens(tokens, a, token_type)) <= 1

\* C36 for the tokens the single-row lookup looks for: at most one unused,
\* unexpired token of a type.
C36_OneValidTokenPerType ==
    \A a \in DOMAIN apps, token_type \in TokenType :
        Cardinality(get_valid_token_for_application(tokens, a, token_type, now)) <= 1

(***************************************************************************)
(* C37.  Every token string delivered in an e-mail (the first              *)
(* verification mail, the principal's confirmation mail, a resend or a     *)
(* reminder) is accepted by the token validation for its type for as long  *)
(* as the token row it was sent for is unused and unexpired.               *)
(***************************************************************************)
RowOf(l) ==
    { r \in tokens : r.token = l.row /\ r.application_id = l.app /\ r.token_type = l.type }

Usable(r) == r.used_at = NULL /\ ~ (now > r.expires_at)

C37_DeliveredTokensValidate ==
    \A l \in links :
        (\E r \in RowOf(l) : Usable(r)) =>
            validate_token(tokens, l.token, l.type, now) = "ok"

\* The same, for the mails of the request handlers only.
C37_HandlerTokensValidate ==
    \A l \in links :
        ( /\ l.by # "send_verification_reminders"
          /\ \E r \in RowOf(l) : Usable(r) ) =>
            validate_token(tokens, l.token, l.type, now) = "ok"

C37_ReminderDelivered ==
    \E l \in links :
        /\ l.by = "send_verification_reminders"
        /\ \E r \in RowOf(l) : Usable(r)

(***************************************************************************)
(* C38.  With send_verification_reminders run at its interval, an          *)
(* application that stays in AWAITING_PRINCIPAL_CONFIRMATION with an       *)
(* unused, unexpired principal token older than 48 hours eventually has a  *)
(* reminder sent to the principal, also when a reminder went out while it  *)
(* was waiting for the applicant.                                          *)
(***************************************************************************)
NeedsPrincipalReminder(a) ==
    /\ a \in DOMAIN apps
    /\ apps[a].status = AWAITING_PRINCIPAL_CONFIRMATION
    /\ \E r \in tokens :
          /\ r.application_id = a
          /\ r.token_type = PRINCIPAL_CONFIRMATION
          /\ Usable(r)
          /\ r.created_at < now - REMINDER_THRESHOLD_HOURS

PrincipalReminded(a) ==
    \E l \in links :
        /\ l.app = a
        /\ l.type = PRINCIPAL_CONFIRMATION
        /\ l.by = "send_verification_reminders"

RemindedAsApplicant(a) ==
    \E l \in links :
        /\ l.app = a
        /\ l.type = APPLICANT_VERIFICATION
        /\ l.by = "send_verification_reminders"

C38_PrincipalEventuallyReminded ==
    \A a \in AppIds :
        NeedsPrincipalReminder(a) ~> (PrincipalReminded(a) \/ ~ NeedsPrincipalReminder(a))

\* The same, for the applications that had no reminder as applicants.
C38_FirstReminderSent ==
    \A a \in AppIds :
        (NeedsPrincipalReminder(a) /\ ~ RemindedAsApplicant(a))
            ~> (PrincipalReminded(a) \/ ~ NeedsPrincipalReminder(a))

C38_RemindedTwice ==
    \E a \in AppIds : NeedsPrincipalReminder(a) /\ RemindedAsApplicant(a)

(***************************************************************************)
(* C39.  expire_unverified_applications moves an application from          *)
(* AWAITING_APPLICANT_VERIFICATION to EXPIRED only when the application    *)
(* holds no unused, unexpired APPLICANT_VERIFICATION token: in particular  *)
(* not before the expires_at that a resend returned.                       *)
(***************************************************************************)
UsableApplicantTokens(a) ==
    { r \in tokens : /\ r.application_id = a
                     /\ r.token_type = APPLICANT_VERIFICATION
                     /\ Usable(r) }

ExpiredByJob(a) ==
    /\ a \in DOMAIN apps
    /\ apps[a].status = AWAITING_APPLICANT_VERIFICATION
    /\ apps'[a].status = EXPIRED
    /\ \E p \in Procs : /\ procs[p].op = "expire_unverified_applications"
                        /\ procs'[p] # procs[p]

C39_ExpiredOnlyWithoutToken ==
    [][\A a \in AppIds : ExpiredByJob(a) => UsableApplicantTokens(a) = {}]_vars

\* The same, for the applications whose link was never sent again.
C39_ExpiredWithFirstToken ==
    [][\A a \in AppIds :
          (ExpiredByJob(a) /\ ~ \E l \in links : l.app = a /\ l.by = "resend_verification")
              => UsableApplicantTokens(a) = {}]_vars

(***************************************************************************)
(* C40.  A token with used_at set belongs to an application that took the  *)
(* transition the token guards: applicant_verified_at is set for a used    *)
(* APPLICANT_VERIFICATION token, principal_confirmed_at for a used         *)
(* PRINCIPAL_CONFIRMATION token; also when the verification raced with the *)
(* expiry job or the status write failed.  (Stated of the tokens that no   *)
(* call still under way is working on.)                                    *)
(***************************************************************************)
UnderWay(r) ==
    \E p \in Procs :
        /\ procs[p].op \in { "verify_applicant", "confirm_principal" }
        /\ procs[p].pc # "done"
        /\ hash_token(procs[p].tok) = r.token

Gated(r) ==
    /\ r.application_id \in DOMAIN apps
    /\ IF r.token_type = APPLICANT_VERIFICATION
       THEN apps[r.application_id].applicant_verified_at # NULL
       ELSE apps[r.application_id].principal_confirmed_at # NULL

====
